---- MODULE Spec2Model ----
(***************************************************************************)
(* Model of dropbox-s3-sync: the OAuth token store (dsync/config.py), the  *)
(* rclone client (dsync/rclone_client.py) and the sync engine              *)
(* (dsync/sync_engine.py).  Each process is one Python process that builds *)
(* a SyncEngine and calls it.  The token file and the rclone configuration *)
(* file are files on disk, shared by every process of the same user.       *)
(***************************************************************************)
EXTENDS Integers, Sequences, FiniteSets, TLC

(* ---------------------------- bounds ----------------------------------- *)
\* last clock value the free-running clock ticks to
MaxNow == 4
\* number of run_sync / run_bidirectional_sync calls made on one engine
MaxCalls == 2

(* ------------------------ program constants ---------------------------- *)
\* safety margin, in seconds, before expiry at which a token is refreshed
RefreshMargin == 300
\* expires_in assumed when the refresh response carries none
DefaultExpiresIn == 14400
\* stop_after_attempt(3) of the retry decorator on RcloneClient.sync
MaxAttempts == 3

Procs == {1, 2}

(* ------------------------- Python dictionaries ------------------------- *)
EmptyDict == [k \in {} |-> 0]

DictSet(d, key, val) ==
    [k \in (DOMAIN d) \cup {key} |-> IF k = key THEN val ELSE d[k]]

\* dict.get(key, default)
DictGet(d, key, default) == IF key \in DOMAIN d THEN d[key] ELSE default

(* --------------------------- input domains ----------------------------- *)
OldTokens == {"a0"}
NewTokens == {"a1", "a2"}
\* expires_in values a token endpoint hands out: one below the margin, one
\* just above it
ExpiresChoices == {200, 302}

\* issued_at values of a persisted token
IssuedChoices == {0, 1}

\* S extended by every dict of S with the optional key set to a value of vals
WithOptionalKey(S, key, vals) == S \cup {DictSet(d, key, v) : d \in S, v \in vals}

\* contents the persisted token file can have: access_token always, the
\* other keys optionally; a persisted issued_at is never in the future
TokenDicts ==
    WithOptionalKey(WithOptionalKey(WithOptionalKey(
        {[access_token |-> a] : a \in OldTokens},
        "refresh_token", {"r0"}), "expires_in", ExpiresChoices), "issued_at", IssuedChoices)

AbsentFile == [state |-> "absent", data |-> EmptyDict]
TruncatedFile == [state |-> "truncated", data |-> EmptyDict]
CompleteFile(d) == [state |-> "complete", data |-> d]

\* JSON bodies of a 2xx token-endpoint response to grant_type=refresh_token
RefreshBodies ==
    WithOptionalKey(WithOptionalKey({EmptyDict}, "access_token", NewTokens),
                    "expires_in", {302})

RefreshResponses ==
    {[ok |-> FALSE, body |-> EmptyDict]} \cup {[ok |-> TRUE, body |-> b] : b \in RefreshBodies}

\* DropboxConfig: use_oauth, oauth (present or None), access_token ("" = None)
DropboxConfigs == [use_oauth : BOOLEAN, has_oauth : BOOLEAN, access_token : {"", "sl.d0"}]

\* no callback handled yet
NoExchange ==
    [code |-> "", credentials |-> FALSE, posted |-> FALSE,
     response |-> [kind |-> "", body |-> EmptyDict], at |-> 0,
     before |-> AbsentFile, answer |-> ""]

NoConfigFile == [exists |-> FALSE, token |-> "", writer |-> 0]

\* how a subprocess.run call can end: the tool exits 0, exits non-zero, or
\* the call itself raises OSError (tool missing, not executable)
Outcomes == {"exit0", "exit1", "fault"}
ReturnCode(o) == IF o = "exit0" THEN 0 ELSE 1

DryRuns == BOOLEAN
Directions == {"dropbox_to_s3", "s3_to_dropbox", "bidirectional", "sideways"}
Strategies == {"newer", "dropbox-wins", "s3-wins"}

Dropbox == "dropbox:"
Bucket == "s3:bucket"

\* a process that does not go through main
NoRequest == [direction |-> "", strategy |-> ""]

NoCall == [op |-> "none", dry_run |-> FALSE, direction |-> "", strategy |-> ""]

\* result envelope of a SyncEngine call; outcome says whether the call has
\* returned it or raised instead
NoResult ==
    [outcome |-> "none", op |-> "none", success |-> FALSE, has_error |-> FALSE,
     dry_run |-> FALSE, direction |-> "", strategy |-> "", return_code |-> -1,
     results_key |-> "", results |-> <<>>, has_changes |-> FALSE]

VARIABLES
    now,          \* wall clock, datetime.now().timestamp()
    tokenFile,    \* oauth.token_file on disk
    cfgFile,      \* ~/.config/rclone/rclone.conf on disk
    callLimit,    \* how many calls the driver makes on each engine
    exchange,     \* the authorization-code exchange handled by oauth_callback
    requested,    \* SYNC_DIRECTION and CONFLICT_STRATEGY read by main (none for
                  \* a process that uses the engine as a library)
    mappings,     \* the PathMapping list a PathMapper was built from
    source_path,  \* the path handed to transform_path
    transformed,  \* what transform_path did with it
    file_path,    \* the source file handed to find_best_match
    candidate_files, \* the candidate pool handed to find_best_match
    best_match,   \* what find_best_match returned
    metadata_pair, \* the two dicts handed to _calculate_metadata_similarity
    metadata_similarity, \* what _calculate_metadata_similarity did with them
    pc,           \* position of each process
    conf,         \* the DropboxConfig of each process
    loaded,       \* what _get_oauth_token read from the token file
    tokData,      \* token_data dict held by _get_oauth_token/_refresh_token
    tokTime,      \* current_time read by _token_needs_refresh
    tokRes,       \* access token returned by get_access_token ("" = none)
    tokErr,       \* error raised by get_access_token ("" = none)
    refreshCalls, \* number of POSTs to the token endpoint by the process
    tokWrites,    \* number of times the process opened the token file for writing
    status,       \* answer of the token status endpoint ("" = none)
    call,         \* the SyncEngine call in progress
    attempt,      \* attempt number of the sync method call in progress
    log,          \* tool invocations started during the current call
    inflight,     \* number of tool invocations started and not yet completed
    results,      \* the results list built by the call in progress
    lastResult,   \* how the last SyncEngine call ended (none while one runs)
    ncalls        \* number of SyncEngine calls made so far

tokVars == <<loaded, tokData, tokTime, tokRes, tokErr, refreshCalls, tokWrites, status>>
callVars == <<call, attempt, log, inflight, results, lastResult, ncalls>>
pmVars == <<mappings, source_path, transformed>>
fmVars == <<file_path, candidate_files, best_match, metadata_pair, metadata_similarity>>
envVars == <<callLimit, requested, exchange, pmVars, fmVars>>
vars == <<now, tokenFile, cfgFile, envVars, pc, conf, loaded, tokData, tokTime, tokRes,
          tokErr, refreshCalls, tokWrites, status, call, attempt, log, inflight,
          results, lastResult, ncalls>>

(* ----------------------------- TokenStore ------------------------------ *)
\* the comparison of _token_needs_refresh turned around
TokenNeedsRefreshFlipped(token_data, current_time) ==
    IF "issued_at" \notin DOMAIN token_data \/ "expires_in" \notin DOMAIN token_data
    THEN TRUE
    ELSE (current_time - token_data["issued_at"]) <= (token_data["expires_in"] - RefreshMargin)

TokenNeedsRefresh(token_data, current_time) ==
    IF "issued_at" \notin DOMAIN token_data \/ "expires_in" \notin DOMAIN token_data
    THEN TRUE
    ELSE (current_time - token_data["issued_at"]) >= (token_data["expires_in"] - RefreshMargin)

\* _refresh_token forgetting to stamp issued_at
RefreshedWithoutStamp(token_data, new_data, current_time) ==
    DictSet(DictSet(token_data,
        "access_token", new_data["access_token"]),
        "expires_in", DictGet(new_data, "expires_in", DefaultExpiresIn))

\* token_data after lines 101-103 of _refresh_token
RefreshedTokenData(token_data, new_data, current_time) ==
    DictSet(DictSet(DictSet(token_data,
        "access_token", new_data["access_token"]),
        "expires_in", DictGet(new_data, "expires_in", DefaultExpiresIn)),
        "issued_at", current_time)

\* a failure answered by falling back to the token still in the file
FallsBackToStaleToken(p, err) ==
    /\ tokErr' = [tokErr EXCEPT ![p] = err]
    /\ tokRes' = [tokRes EXCEPT ![p] = DictGet(tokenFile.data, "access_token", "")]
    /\ pc' = [pc EXCEPT ![p] = "write_config"]

\* get_access_token raises err; _setup_rclone_config turns it into ValueError
TokenFails(p, err) ==
    /\ tokErr' = [tokErr EXCEPT ![p] = err]
    /\ tokRes' = [tokRes EXCEPT ![p] = ""]
    /\ pc' = [pc EXCEPT ![p] = "ctor_failed"]

\* get_access_token returns tok to _setup_rclone_config
TokenReturns(p, tok) ==
    /\ tokRes' = [tokRes EXCEPT ![p] = tok]
    /\ tokErr' = [tokErr EXCEPT ![p] = ""]
    /\ pc' = [pc EXCEPT ![p] = "write_config"]

\* a missing token file read as an empty token
LoadErrorIgnoringAbsence(file) ==
    IF file.state = "truncated" THEN "json_decode_error" ELSE ""

\* what open() and json.load() of the token file raise ("" = nothing)
LoadError(file) ==
    IF file.state = "absent" THEN "token_file_not_found"
    ELSE IF file.state = "truncated" THEN "json_decode_error"
    ELSE ""

\* RcloneClient.__init__ calls get_access_token: the direct token, or the
\* OAuth token file is opened, parsed and checked for refresh
GetAccessToken(p) ==
    /\ pc[p] = "new"
    /\ IF conf[p].use_oauth /\ conf[p].has_oauth
       THEN /\ loaded' = [loaded EXCEPT ![p] = tokenFile]
            /\ IF LoadError(tokenFile) # ""
               THEN /\ TokenFails(p, LoadError(tokenFile))
                    /\ UNCHANGED <<tokData, tokTime, refreshCalls>>
               ELSE /\ tokData' = [tokData EXCEPT ![p] = tokenFile.data]
                    /\ tokTime' = [tokTime EXCEPT ![p] = now]
                    /\ IF ~TokenNeedsRefresh(tokenFile.data, now)
                       THEN /\ TokenReturns(p, tokenFile.data["access_token"])
                            /\ UNCHANGED refreshCalls
                       ELSE IF DictGet(tokenFile.data, "refresh_token", "") = ""
                       THEN /\ TokenFails(p, "no_refresh_token")
                            /\ UNCHANGED refreshCalls
                       ELSE /\ refreshCalls' = [refreshCalls EXCEPT ![p] = @ + 1]
                            /\ pc' = [pc EXCEPT ![p] = "refresh_wait"]
                            /\ UNCHANGED <<tokRes, tokErr>>
       ELSE /\ IF conf[p].access_token # ""
               THEN TokenReturns(p, conf[p].access_token)
               ELSE TokenFails(p, "no_access_token")
            /\ UNCHANGED <<loaded, tokData, tokTime, refreshCalls>>
    /\ UNCHANGED <<now, tokenFile, cfgFile, envVars, conf, tokWrites, status, callVars>>

\* the token endpoint answers the refresh POST; the round trip takes time,
\* so the clock read for issued_at is later than the one read before it
RefreshResponse(p) ==
    /\ pc[p] = "refresh_wait"
    /\ \E resp \in RefreshResponses :
         IF ~resp.ok
         THEN TokenFails(p, "http_error") /\ UNCHANGED tokData
         ELSE IF "access_token" \notin DOMAIN resp.body
         THEN TokenFails(p, "key_error") /\ UNCHANGED tokData
         ELSE /\ tokData' = [tokData EXCEPT ![p] =
                                RefreshedTokenData(tokData[p], resp.body, now + 1)]
              /\ pc' = [pc EXCEPT ![p] = "token_open"]
              /\ UNCHANGED <<tokRes, tokErr>>
    /\ now' = now + 1
    /\ UNCHANGED <<tokenFile, cfgFile, envVars, conf, loaded, tokTime,
                   refreshCalls, tokWrites, status, callVars>>

\* open(token_file, "w") truncates the file
TokenOpen(p) ==
    /\ pc[p] = "token_open"
    /\ tokenFile' = TruncatedFile
    /\ tokWrites' = [tokWrites EXCEPT ![p] = @ + 1]
    /\ pc' = [pc EXCEPT ![p] = "token_dump"]
    /\ UNCHANGED <<now, cfgFile, envVars, conf, loaded, tokData, tokTime, tokRes,
                   tokErr, refreshCalls, status, callVars>>

\* json.dump and close put the new content in the file; _refresh_token
\* returns token_data and _get_oauth_token returns its access_token
TokenDump(p) ==
    /\ pc[p] = "token_dump"
    /\ tokenFile' = CompleteFile(tokData[p])
    /\ TokenReturns(p, tokData[p]["access_token"])
    /\ UNCHANGED <<now, cfgFile, envVars, conf, loaded, tokData, tokTime,
                   refreshCalls, tokWrites, status, callVars>>

(* ------------------------------ oauth_app ------------------------------ *)
\* GET /token/status: the handler reads the token file and reports on it
TokenStatus(p) ==
    /\ pc[p] = "new"
    /\ loaded' = [loaded EXCEPT ![p] = tokenFile]
    /\ status' = [status EXCEPT ![p] =
          IF tokenFile.state = "absent" THEN "no_tokens"
          ELSE IF tokenFile.state = "truncated" THEN "error"
          ELSE IF (now - DictGet(tokenFile.data, "issued_at", 0))
                    >= DictGet(tokenFile.data, "expires_in", DefaultExpiresIn)
               THEN "expired" ELSE "valid"]
    /\ pc' = [pc EXCEPT ![p] = "status_done"]
    /\ UNCHANGED <<now, tokenFile, cfgFile, envVars, conf, tokData, tokTime, tokRes,
                   tokErr, refreshCalls, tokWrites, callVars>>

\* the process is killed while it rewrites the token file
Crash(p) ==
    /\ pc[p] \in {"token_open", "token_dump"}
    /\ pc' = [pc EXCEPT ![p] = "crashed"]
    /\ UNCHANGED <<now, tokenFile, cfgFile, envVars, conf, tokVars, callVars>>

\* JSON bodies of a 2xx token-endpoint response to
\* grant_type=authorization_code
ExchangeBodies ==
    WithOptionalKey(WithOptionalKey({[access_token |-> a] : a \in NewTokens},
                    "refresh_token", {"r1"}), "expires_in", ExpiresChoices)

\* how the POST of oauth_callback can end: an HTTP error, a 2xx answer whose
\* body is no JSON, or a 2xx answer with a JSON body
ExchangeResponses ==
    {[kind |-> k, body |-> EmptyDict] : k \in {"http_error", "no_json"}}
        \cup {[kind |-> "ok", body |-> b] : b \in ExchangeBodies}

\* query parameter code ("" = missing) and whether the client id and secret
\* are configured
Codes == {"", "code-1"}

\* the response persisted as it came
ExchangedWithoutStamp(body, current_time) == body

\* token_data = resp.json(); token_data["issued_at"] = datetime.now().timestamp()
ExchangedTokenData(body, current_time) == DictSet(body, "issued_at", current_time)

\* GET /oauth/callback up to the POST to the token endpoint
OAuthCallback(p) ==
    /\ pc[p] = "new"
    /\ exchange = NoExchange
    /\ \E code \in Codes, credentials \in BOOLEAN :
         LET e == [NoExchange EXCEPT !.code = code, !.credentials = credentials,
                                     !.before = tokenFile] IN
         IF code = "" \/ ~credentials
         THEN /\ exchange' = [e EXCEPT !.answer = "error"]
              /\ pc' = [pc EXCEPT ![p] = "callback_done"]
         ELSE /\ exchange' = [e EXCEPT !.posted = TRUE]
              /\ pc' = [pc EXCEPT ![p] = "exchange_wait"]
    /\ UNCHANGED <<now, tokenFile, cfgFile, callLimit, requested, pmVars, fmVars, conf,
                   tokVars, callVars>>

\* the token endpoint answers the exchange POST
ExchangeResponse(p) ==
    /\ pc[p] = "exchange_wait"
    /\ \E resp \in ExchangeResponses :
         IF resp.kind # "ok"
         THEN /\ exchange' = [exchange EXCEPT !.response = resp, !.answer = "error"]
              /\ pc' = [pc EXCEPT ![p] = "callback_done"]
              /\ UNCHANGED tokData
         ELSE /\ exchange' = [exchange EXCEPT !.response = resp, !.at = now]
              /\ tokData' = [tokData EXCEPT ![p] = ExchangedTokenData(resp.body, now)]
              /\ pc' = [pc EXCEPT ![p] = "callback_open"]
    /\ UNCHANGED <<now, tokenFile, cfgFile, callLimit, requested, pmVars, fmVars, conf,
                   loaded, tokTime, tokRes, tokErr, refreshCalls, tokWrites, status,
                   callVars>>

\* open(TOKEN_FILE, "w") truncates the file
CallbackOpen(p) ==
    /\ pc[p] = "callback_open"
    /\ tokenFile' = TruncatedFile
    /\ tokWrites' = [tokWrites EXCEPT ![p] = @ + 1]
    /\ pc' = [pc EXCEPT ![p] = "callback_dump"]
    /\ UNCHANGED <<now, cfgFile, envVars, conf, loaded, tokData, tokTime, tokRes,
                   tokErr, refreshCalls, status, callVars>>

\* json.dump and close put the content in the file; the success page is
\* returned
CallbackDump(p) ==
    /\ pc[p] = "callback_dump"
    /\ tokenFile' = CompleteFile(tokData[p])
    /\ exchange' = [exchange EXCEPT !.answer = "success"]
    /\ pc' = [pc EXCEPT ![p] = "callback_done"]
    /\ UNCHANGED <<now, cfgFile, callLimit, requested, pmVars, fmVars, conf, tokVars,
                   callVars>>

(* ------------------------------ RcloneClient --------------------------- *)
\* config_path.write_text(config_content): the fixed path under the home
\* directory, holding the resolved access token
WriteConfig(p) ==
    /\ pc[p] = "write_config"
    /\ cfgFile' = [exists |-> TRUE, token |-> tokRes[p], writer |-> p]
    /\ pc' = [pc EXCEPT ![p] = "ready"]
    /\ UNCHANGED <<now, tokenFile, envVars, conf, tokVars, callVars>>

\* the options both sync methods pass
PerformanceFlags ==
    {"--transfers", "--checkers", "--retries", "--retries-sleep", "--progress",
     "--stats", "--log-format"}

\* argument list built by RcloneClient.sync
SyncArgs(source, dest, dry_run) ==
    [op |-> "sync", source |-> source, dest |-> dest,
     flags |-> (IF dry_run THEN {"--dry-run"} ELSE {}) \cup PerformanceFlags
               \cup {"--max-transfer"}]

\* argument list built by RcloneClient.sync_s3_to_dropbox
SyncS3ToDropboxArgs(dry_run) ==
    [op |-> "sync", source |-> Bucket, dest |-> Dropbox,
     flags |-> (IF dry_run THEN {"--dry-run"} ELSE {}) \cup PerformanceFlags]

CheckArgsAsSync(source, dest) ==
    [op |-> "sync", source |-> source, dest |-> dest,
     flags |-> {"--combined"} \cup PerformanceFlags]

\* argument list built by RcloneClient.check_sync_needed
CheckArgs(source, dest) ==
    [op |-> "check", source |-> source, dest |-> dest,
     flags |-> {"--dry-run", "--combined"}]

\* the sync methods called without the dry_run argument
MethodArgsNeverDry(method, dry_run) ==
    IF method = "sync" THEN SyncArgs(Dropbox, Bucket, FALSE)
    ELSE SyncS3ToDropboxArgs(FALSE)

MethodArgs(method, dry_run) ==
    IF method = "sync" THEN SyncArgs(Dropbox, Bucket, dry_run)
    ELSE SyncS3ToDropboxArgs(dry_run)

\* log entry of a tool invocation: its arguments and, once it has ended,
\* how it ended
Started(args) == [args |-> args, outcome |-> ""]
Ended(l, o) == [l EXCEPT ![Len(l)].outcome = o]

\* the tool started without waiting for it to end
NotAwaited(n) == n

\* subprocess.run returns (or raises) only when the tool process has ended
AfterToolEnds(n) == n - 1

\* one tool invocation ends and the next one is started
NextTool(p, o, args) ==
    /\ log' = [log EXCEPT ![p] = Append(Ended(@, o), Started(args))]
    /\ inflight' = [inflight EXCEPT ![p] = AfterToolEnds(@) + 1]

EndTool(p, o) ==
    /\ log' = [log EXCEPT ![p] = Ended(@, o)]
    /\ inflight' = [inflight EXCEPT ![p] = AfterToolEnds(@)]

\* the exception that leaves the body of sync / sync_s3_to_dropbox: the
\* CalledProcessError raised on a non-zero exit is caught by the body itself,
\* only a fault of subprocess.run gets out
SyncBodyRaises(o) == IF o = "fault" THEN "OSError" ELSE ""

\* the dict the body returns when it does not raise
SyncBodyResult(o, n) ==
    [success |-> (o = "exit0"), return_code |-> ReturnCode(o),
     has_error |-> (o # "exit0"), attempts |-> n]

\* @retry(stop_after_attempt(3), retry_if_exception_type(CalledProcessError))
\* decorates sync only; sync_s3_to_dropbox is undecorated
RetryPolicy(method, exc, n) ==
    /\ method = "sync"
    /\ exc = "CalledProcessError"
    /\ n < MaxAttempts

CheckResult(o) == [return_code |-> ReturnCode(o)]

\* cleanup leaving a configuration without the token behind
CleanupBlanksConfig == cfgFile' = [exists |-> TRUE, token |-> "", writer |-> 0]

\* RcloneClient.cleanup: unlink the configuration path if it exists
Cleanup == cfgFile' = NoConfigFile

MethodOf(direction) ==
    IF direction = "dropbox_to_s3" THEN "sync" ELSE "sync_s3_to_dropbox"
SourceOf(direction) == IF direction = "dropbox_to_s3" THEN Dropbox ELSE Bucket
DestOf(direction) == IF direction = "dropbox_to_s3" THEN Bucket ELSE Dropbox

(* --------------------------------- main -------------------------------- *)
\* valid_directions of main
MainAcceptsDirection(direction) ==
    direction \in {"dropbox_to_s3", "s3_to_dropbox", "bidirectional"}

\* valid_strategies of main
MainAcceptsStrategy(strategy) == strategy \in {"newer", "dropbox-wins", "s3-wins"}

\* main reads SYNC_DIRECTION and CONFLICT_STRATEGY and validates them; an
\* invalid value prints a message and exits with status 1 before the engine
\* is built
Main(p) ==
    /\ pc[p] = "new"
    /\ requested[p] = NoRequest
    /\ \E direction \in Directions, strategy \in Strategies \cup {"merge"} :
         /\ requested' = [requested EXCEPT ![p] =
                [direction |-> direction, strategy |-> strategy]]
         /\ IF MainAcceptsDirection(direction) /\ MainAcceptsStrategy(strategy)
            THEN UNCHANGED pc
            ELSE pc' = [pc EXCEPT ![p] = "exited"]
    /\ UNCHANGED <<now, tokenFile, cfgFile, callLimit, exchange, pmVars, fmVars, conf,
                   tokVars, callVars>>

\* the engine method main calls for the requested direction; a process that
\* does not go through main calls what it likes
MainRoutes(p, op, direction, strategy) ==
    \/ requested[p] = NoRequest
    \/ /\ op = "run_sync"
       /\ requested[p].direction # "bidirectional"
       /\ direction = requested[p].direction
    \/ /\ op = "run_bidirectional_sync"
       /\ requested[p].direction = "bidirectional"
       /\ strategy = requested[p].strategy

(* ------------------------------ SyncEngine ----------------------------- *)
RunSyncAcceptsAny(direction) ==
    direction \in {"dropbox_to_s3", "s3_to_dropbox", "bidirectional"}

\* the directions run_sync has a branch for
RunSyncAccepts(direction) == direction \in {"dropbox_to_s3", "s3_to_dropbox"}

\* the call returns envelope r (after the finally block has run)
Returns(p, r) ==
    /\ lastResult' = [lastResult EXCEPT ![p] = [r EXCEPT !.outcome = "returned"]]
    /\ pc' = [pc EXCEPT ![p] = "ready"]

\* the except branch reporting success
CriticalErrorAsSuccess(c) ==
    [NoResult EXCEPT !.op = c.op, !.success = TRUE, !.has_error = TRUE,
                     !.dry_run = c.dry_run, !.direction = c.direction]

\* envelope of the except branch of run_sync / run_bidirectional_sync
CriticalError(c) ==
    [NoResult EXCEPT !.op = c.op, !.success = FALSE, !.has_error = TRUE,
                     !.dry_run = c.dry_run, !.direction = c.direction]

\* envelope run_sync builds from the sync method's result
RunSyncEnvelope(c, sync_result) ==
    [NoResult EXCEPT !.op = c.op, !.success = sync_result.success,
                     !.has_error = sync_result.has_error,
                     !.dry_run = c.dry_run, !.direction = c.direction,
                     !.return_code = sync_result.return_code,
                     !.results = <<sync_result>>]

\* SyncEngine.run_sync up to the first tool invocation
RunSync(p) ==
    /\ pc[p] = "ready"
    /\ ncalls[p] < callLimit
    /\ ncalls' = [ncalls EXCEPT ![p] = @ + 1]
    /\ \E dry_run \in DryRuns, direction \in Directions :
         LET c == [op |-> "run_sync", dry_run |-> dry_run,
                   direction |-> direction, strategy |-> ""] IN
         /\ MainRoutes(p, "run_sync", direction, "")
         /\ call' = [call EXCEPT ![p] = c]
         /\ results' = [results EXCEPT ![p] = <<>>]
         /\ IF ~RunSyncAccepts(direction)
            THEN \* ValueError raised before the try block
                 /\ lastResult' = [lastResult EXCEPT ![p] =
                        [CriticalError(c) EXCEPT !.outcome = "raised"]]
                 /\ log' = [log EXCEPT ![p] = <<>>]
                 /\ UNCHANGED <<pc, attempt, inflight>>
            ELSE IF ~dry_run
            THEN /\ log' = [log EXCEPT ![p] =
                        <<Started(CheckArgs(SourceOf(direction), DestOf(direction)))>>]
                 /\ inflight' = [inflight EXCEPT ![p] = @ + 1]
                 /\ pc' = [pc EXCEPT ![p] = "rs_check"]
                 /\ lastResult' = [lastResult EXCEPT ![p] = NoResult]
                 /\ attempt' = [attempt EXCEPT ![p] = 0]
            ELSE /\ log' = [log EXCEPT ![p] =
                        <<Started(MethodArgs(MethodOf(direction), dry_run))>>]
                 /\ inflight' = [inflight EXCEPT ![p] = @ + 1]
                 /\ attempt' = [attempt EXCEPT ![p] = 1]
                 /\ pc' = [pc EXCEPT ![p] = "rs_sync"]
                 /\ lastResult' = [lastResult EXCEPT ![p] = NoResult]
    /\ UNCHANGED <<now, tokenFile, cfgFile, envVars, conf, tokVars>>

\* the preview check of run_sync ends; the sync method is called
RsCheckDone(p) ==
    /\ pc[p] = "rs_check"
    /\ \E o \in Outcomes :
         IF o = "fault"
         THEN /\ EndTool(p, o)
              /\ Returns(p, CriticalError(call[p]))
              /\ Cleanup
              /\ UNCHANGED attempt
         ELSE /\ NextTool(p, o, MethodArgs(MethodOf(call[p].direction), call[p].dry_run))
              /\ attempt' = [attempt EXCEPT ![p] = 1]
              /\ pc' = [pc EXCEPT ![p] = "rs_sync"]
              /\ UNCHANGED <<lastResult, cfgFile>>
    /\ UNCHANGED <<now, tokenFile, envVars, conf, tokVars, call, results, ncalls>>

\* the tool invocation of the sync method called by run_sync ends
RsSyncDone(p) ==
    /\ pc[p] = "rs_sync"
    /\ \E o \in Outcomes :
         LET method == MethodOf(call[p].direction) IN
         IF RetryPolicy(method, SyncBodyRaises(o), attempt[p])
         THEN /\ NextTool(p, o, MethodArgs(method, call[p].dry_run))
              /\ attempt' = [attempt EXCEPT ![p] = @ + 1]
              /\ UNCHANGED <<pc, lastResult, cfgFile>>
         ELSE /\ EndTool(p, o)
              /\ IF SyncBodyRaises(o) # ""
                 THEN Returns(p, CriticalError(call[p]))
                 ELSE Returns(p, RunSyncEnvelope(call[p], SyncBodyResult(o, attempt[p])))
              /\ Cleanup
              /\ UNCHANGED attempt
    /\ UNCHANGED <<now, tokenFile, envVars, conf, tokVars, call, results, ncalls>>

\* a layer that enforces a strategy: only "newer" can succeed
BidiEnvelopeEnforcing(c, success, key, rs, has_error) ==
    [NoResult EXCEPT !.op = c.op, !.success = (success /\ c.strategy = "newer"),
                     !.has_error = has_error,
                     !.dry_run = c.dry_run, !.strategy = c.strategy,
                     !.results_key = key, !.results = rs]

\* result dict of RcloneClient.bidirectional_sync, wrapped by
\* run_bidirectional_sync: success, results or partial_results, strategy
BidiEnvelope(c, success, key, rs, has_error) ==
    [NoResult EXCEPT !.op = c.op, !.success = success, !.has_error = has_error,
                     !.dry_run = c.dry_run, !.strategy = c.strategy,
                     !.results_key = key, !.results = rs]

\* has_changes only when both directions differ
PreviewEnvelopeBothDiffer(c, checks) ==
    [NoResult EXCEPT !.op = c.op, !.success = TRUE, !.dry_run = TRUE,
                     !.strategy = c.strategy, !.results_key = "preview",
                     !.results = checks,
                     !.has_changes = (checks[1].return_code # 0
                                      /\ checks[2].return_code # 0)]

\* dry-run result: success True and the preview of check_bidirectional_sync
PreviewEnvelope(c, checks) ==
    [NoResult EXCEPT !.op = c.op, !.success = TRUE, !.dry_run = TRUE,
                     !.strategy = c.strategy, !.results_key = "preview",
                     !.results = checks,
                     !.has_changes = (checks[1].return_code # 0
                                      \/ checks[2].return_code # 0)]

LegResult(direction, result) ==
    [direction |-> direction, success |-> result.success,
     return_code |-> result.return_code, has_error |-> result.has_error,
     attempts |-> result.attempts]

\* any() in place of all()
AnySucceeded(rs) == \E i \in 1..Len(rs) : rs[i].success

\* all(r['result']['success'] for r in results)
AllSucceeded(rs) == \A i \in 1..Len(rs) : rs[i].success

\* SyncEngine.run_bidirectional_sync up to the first tool invocation
RunBidirectionalSync(p) ==
    /\ pc[p] = "ready"
    /\ ncalls[p] < callLimit
    /\ ncalls' = [ncalls EXCEPT ![p] = @ + 1]
    /\ \E dry_run \in DryRuns, strategy \in Strategies :
         /\ MainRoutes(p, "run_bidirectional_sync", "bidirectional", strategy)
         /\ call' = [call EXCEPT ![p] =
                [op |-> "run_bidirectional_sync", dry_run |-> dry_run,
                 direction |-> "", strategy |-> strategy]]
         /\ results' = [results EXCEPT ![p] = <<>>]
         /\ inflight' = [inflight EXCEPT ![p] = @ + 1]
         /\ IF dry_run
            THEN /\ log' = [log EXCEPT ![p] = <<Started(CheckArgs(Dropbox, Bucket))>>]
                 /\ pc' = [pc EXCEPT ![p] = "bd_check1"]
                 /\ attempt' = [attempt EXCEPT ![p] = 0]
            ELSE /\ log' = [log EXCEPT ![p] = <<Started(MethodArgs("sync", FALSE))>>]
                 /\ attempt' = [attempt EXCEPT ![p] = 1]
                 /\ pc' = [pc EXCEPT ![p] = "bd_leg1"]
    /\ lastResult' = [lastResult EXCEPT ![p] = NoResult]
    /\ UNCHANGED <<now, tokenFile, cfgFile, envVars, conf, tokVars>>

\* check_bidirectional_sync: the Dropbox -> S3 check ends
BdCheck1Done(p) ==
    /\ pc[p] = "bd_check1"
    /\ \E o \in Outcomes :
         IF o = "fault"
         THEN /\ EndTool(p, o)
              /\ Returns(p, CriticalError(call[p]))
              /\ Cleanup
              /\ UNCHANGED results
         ELSE /\ NextTool(p, o, CheckArgs(Bucket, Dropbox))
              /\ results' = [results EXCEPT ![p] = <<CheckResult(o)>>]
              /\ pc' = [pc EXCEPT ![p] = "bd_check2"]
              /\ UNCHANGED <<lastResult, cfgFile>>
    /\ UNCHANGED <<now, tokenFile, envVars, conf, tokVars, call, attempt, ncalls>>

\* check_bidirectional_sync: the S3 -> Dropbox check ends
BdCheck2Done(p) ==
    /\ pc[p] = "bd_check2"
    /\ Cleanup
    /\ \E o \in Outcomes :
         /\ EndTool(p, o)
         /\ IF o = "fault"
            THEN Returns(p, CriticalError(call[p])) /\ UNCHANGED results
            ELSE /\ results' = [results EXCEPT ![p] = Append(@, CheckResult(o))]
                 /\ Returns(p, PreviewEnvelope(call[p], results'[p]))
    /\ UNCHANGED <<now, tokenFile, envVars, conf, tokVars, call, attempt, ncalls>>

\* bidirectional_sync step 1: the tool invocation of self.sync ends
BdLeg1Done(p) ==
    /\ pc[p] = "bd_leg1"
    /\ \E o \in Outcomes :
         IF RetryPolicy("sync", SyncBodyRaises(o), attempt[p])
         THEN /\ NextTool(p, o, MethodArgs("sync", FALSE))
              /\ attempt' = [attempt EXCEPT ![p] = @ + 1]
              /\ UNCHANGED <<pc, lastResult, cfgFile, results>>
         ELSE IF SyncBodyRaises(o) # ""
         THEN /\ EndTool(p, o)
              /\ Returns(p, BidiEnvelope(call[p], FALSE, "partial_results",
                                         results[p], TRUE))
              /\ Cleanup
              /\ UNCHANGED <<attempt, results>>
         ELSE /\ NextTool(p, o, MethodArgs("sync_s3_to_dropbox", FALSE))
              /\ results' = [results EXCEPT ![p] =
                     Append(@, LegResult("dropbox_to_s3", SyncBodyResult(o, attempt[p])))]
              /\ attempt' = [attempt EXCEPT ![p] = 1]
              /\ pc' = [pc EXCEPT ![p] = "bd_leg2"]
              /\ UNCHANGED <<lastResult, cfgFile>>
    /\ UNCHANGED <<now, tokenFile, envVars, conf, tokVars, call, ncalls>>

\* bidirectional_sync step 2: the tool invocation of sync_s3_to_dropbox ends
BdLeg2Done(p) ==
    /\ pc[p] = "bd_leg2"
    /\ \E o \in Outcomes :
         IF RetryPolicy("sync_s3_to_dropbox", SyncBodyRaises(o), attempt[p])
         THEN /\ NextTool(p, o, MethodArgs("sync_s3_to_dropbox", FALSE))
              /\ attempt' = [attempt EXCEPT ![p] = @ + 1]
              /\ UNCHANGED <<pc, lastResult, cfgFile, results>>
         ELSE /\ EndTool(p, o)
              /\ Cleanup
              /\ UNCHANGED attempt
              /\ IF SyncBodyRaises(o) # ""
                 THEN /\ Returns(p, BidiEnvelope(call[p], FALSE, "partial_results",
                                                 results[p], TRUE))
                      /\ UNCHANGED results
                 ELSE /\ results' = [results EXCEPT ![p] =
                            Append(@, LegResult("s3_to_dropbox",
                                                SyncBodyResult(o, attempt[p])))]
                      /\ Returns(p, BidiEnvelope(call[p], AllSucceeded(results'[p]),
                                                 "results", results'[p], FALSE))
    /\ UNCHANGED <<now, tokenFile, envVars, conf, tokVars, call, ncalls>>

(* -------------------------- list_source_files --------------------------- *)
\* what the tool can print on a listing that exits with 0: a JSON array of
\* file entries, or text that is no JSON
Listings == {<<>>, <<"a.pdf">>, <<"a.pdf", "b.pdf">>}
NoJson == <<"no json">>
Stdouts == Listings \cup {NoJson}
Limits == {0, 1}

\* argument list built by RcloneClient.list_files('dropbox')
ListArgs == [op |-> "lsjson", source |-> Dropbox, dest |-> "", flags |-> {}]

\* json.loads(result.stdout)
JsonLoads(stdout) ==
    IF stdout \in Listings THEN [raises |-> "", files |-> stdout]
    ELSE [raises |-> "JSONDecodeError", files |-> <<>>]

\* what RcloneClient.list_files returns for a tool run that ended with an
\* exit code
ListFiles(o, stdout) ==
    IF ReturnCode(o) = 0
    THEN IF JsonLoads(stdout).raises = "" THEN JsonLoads(stdout).files ELSE <<>>
    ELSE <<>>

\* files[:limit] if limit > 0 else files
Limited(files, limit) ==
    IF limit > 0 THEN SubSeq(files, 1, IF limit < Len(files) THEN limit ELSE Len(files))
    ELSE files

\* SyncEngine.list_source_files up to the tool invocation
ListSourceFiles(p) ==
    /\ pc[p] = "ready"
    /\ ncalls[p] < callLimit
    /\ requested[p] = NoRequest
    /\ ncalls' = [ncalls EXCEPT ![p] = @ + 1]
    /\ call' = [call EXCEPT ![p] = [NoCall EXCEPT !.op = "list_source_files"]]
    /\ results' = [results EXCEPT ![p] = <<>>]
    /\ log' = [log EXCEPT ![p] = <<[args |-> ListArgs, outcome |-> "", stdout |-> <<>>]>>]
    /\ inflight' = [inflight EXCEPT ![p] = @ + 1]
    /\ attempt' = [attempt EXCEPT ![p] = 0]
    /\ lastResult' = [lastResult EXCEPT ![p] = NoResult]
    /\ pc' = [pc EXCEPT ![p] = "ls_list"]
    /\ UNCHANGED <<now, tokenFile, cfgFile, envVars, conf, tokVars>>

\* the listing ends and list_source_files returns (or raises); nothing is
\* cleaned up. The limit argument is only looked at here.
ListDone(p) ==
    /\ pc[p] = "ls_list"
    /\ \E o \in Outcomes, out \in Stdouts, limit \in Limits :
         LET stdout == IF o = "exit0" THEN out ELSE <<>> IN
         /\ o # "exit0" => out = <<>>
         /\ log' = [log EXCEPT ![p] = <<[args |-> ListArgs, outcome |-> o,
                                         stdout |-> stdout]>>]
         /\ inflight' = [inflight EXCEPT ![p] = AfterToolEnds(@)]
         /\ lastResult' = [lastResult EXCEPT ![p] =
                IF o = "fault"
                THEN [NoResult EXCEPT !.op = "list_source_files", !.outcome = "raised"]
                ELSE [NoResult EXCEPT !.op = "list_source_files", !.outcome = "returned",
                                      !.results = Limited(ListFiles(o, stdout), limit)]]
    /\ pc' = [pc EXCEPT ![p] = "ready"]
    /\ UNCHANGED <<now, tokenFile, cfgFile, envVars, conf, tokVars, call, attempt,
                   results, ncalls>>

Tick ==
    /\ now < MaxNow
    /\ now' = now + 1
    /\ UNCHANGED <<tokenFile, cfgFile, envVars, pc, conf, tokVars, callVars>>

DirectConf == [use_oauth |-> FALSE, has_oauth |-> FALSE, access_token |-> "sl.d0"]

InitFiles ==
    /\ now = 1
    /\ tokenFile \in {AbsentFile} \cup {CompleteFile(d) : d \in TokenDicts}
    /\ cfgFile = NoConfigFile

\* no PathMapper is built
NoPathMapper ==
    /\ mappings = <<>>
    /\ source_path = <<>>
    /\ transformed = <<>>

\* no FileMatcher is used
NoFileMatcher ==
    /\ file_path = <<>>
    /\ candidate_files = <<>>
    /\ best_match = <<>>
    /\ metadata_pair = <<>>
    /\ metadata_similarity = <<>>

InitProcs ==
    /\ pc = [p \in Procs |-> "new"]
    /\ loaded = [p \in Procs |-> AbsentFile]
    /\ tokData = [p \in Procs |-> EmptyDict]
    /\ tokTime = [p \in Procs |-> 0]
    /\ tokRes = [p \in Procs |-> ""]
    /\ tokErr = [p \in Procs |-> ""]
    /\ refreshCalls = [p \in Procs |-> 0]
    /\ tokWrites = [p \in Procs |-> 0]
    /\ status = [p \in Procs |-> ""]
    /\ call = [p \in Procs |-> NoCall]
    /\ attempt = [p \in Procs |-> 0]
    /\ log = [p \in Procs |-> <<>>]
    /\ inflight = [p \in Procs |-> 0]
    /\ results = [p \in Procs |-> <<>>]
    /\ lastResult = [p \in Procs |-> NoResult]
    /\ ncalls = [p \in Procs |-> 0]
    /\ requested = [p \in Procs |-> NoRequest]
    /\ exchange = NoExchange

\* one process, making up to MaxCalls calls on its engine
Init ==
    /\ InitFiles
    /\ InitProcs
    /\ NoPathMapper
    /\ NoFileMatcher
    /\ callLimit = MaxCalls
    /\ conf \in {f \in [Procs -> DropboxConfigs] : f[2] = DirectConf}

Step(p) ==
    \/ TokenStatus(p)
    \/ GetAccessToken(p)
    \/ RefreshResponse(p)
    \/ TokenOpen(p)
    \/ TokenDump(p)
    \/ WriteConfig(p)
    \/ RunSync(p)
    \/ RsCheckDone(p)
    \/ RsSyncDone(p)
    \/ RunBidirectionalSync(p)
    \/ BdCheck1Done(p)
    \/ BdCheck2Done(p)
    \/ BdLeg1Done(p)
    \/ BdLeg2Done(p)

Next == Step(1) \/ Tick

Spec == Init /\ [][Next]_vars

OAuthConf == [use_oauth |-> TRUE, has_oauth |-> TRUE, access_token |-> ""]

\* two processes of the same user working on the token file at once: each
\* one resolves its access token or answers a token status request, and may
\* be killed while it rewrites the file
InitTok ==
    /\ InitFiles
    /\ InitProcs
    /\ NoPathMapper
    /\ NoFileMatcher
    /\ callLimit = 1
    /\ conf = [p \in Procs |-> OAuthConf]

TokStep(p) ==
    \/ TokenStatus(p)
    \/ GetAccessToken(p)
    \/ RefreshResponse(p)
    \/ TokenOpen(p)
    \/ TokenDump(p)
    \/ Crash(p)

NextTok == (\E p \in Procs : TokStep(p)) \/ Tick

SpecTok == InitTok /\ [][NextTok]_vars

\* the OAuth app handles one callback (process 1) and a sync process of the
\* same user resolves its access token (process 2), at any time before,
\* during or after the exchange
InitOAuth ==
    /\ InitFiles
    /\ InitProcs
    /\ NoPathMapper
    /\ NoFileMatcher
    /\ callLimit = 1
    /\ conf = [p \in Procs |-> OAuthConf]

NextOAuth ==
    \/ OAuthCallback(1)
    \/ ExchangeResponse(1)
    \/ CallbackOpen(1)
    \/ CallbackDump(1)
    \/ GetAccessToken(2)
    \/ RefreshResponse(2)
    \/ TokenOpen(2)
    \/ TokenDump(2)
    \/ Tick

SpecOAuth == InitOAuth /\ [][NextOAuth]_vars

\* two sync processes of the same user running at once with direct tokens,
\* each making one call on its engine
InitConc ==
    /\ now = 1
    /\ tokenFile = AbsentFile
    /\ cfgFile = NoConfigFile
    /\ InitProcs
    /\ NoPathMapper
    /\ NoFileMatcher
    /\ callLimit = 1
    /\ conf = [p \in Procs |-> DirectConf]

SyncStep(p) ==
    \/ GetAccessToken(p)
    \/ WriteConfig(p)
    \/ RunSync(p)
    \/ RsCheckDone(p)
    \/ RsSyncDone(p)
    \/ RunBidirectionalSync(p)
    \/ BdCheck1Done(p)
    \/ BdCheck2Done(p)
    \/ BdLeg1Done(p)
    \/ BdLeg2Done(p)

NextConc == \E p \in Procs : SyncStep(p)

SpecConc == InitConc /\ [][NextConc]_vars

\* one process that runs main (or uses the engine as a library) and makes
\* one call
InitMain ==
    /\ InitFiles
    /\ InitProcs
    /\ NoPathMapper
    /\ NoFileMatcher
    /\ callLimit = 1
    /\ conf \in {f \in [Procs -> {OAuthConf, DirectConf}] : f[2] = DirectConf}

MainStep(p) ==
    \/ Main(p)
    \/ GetAccessToken(p)
    \/ RefreshResponse(p)
    \/ TokenOpen(p)
    \/ TokenDump(p)
    \/ WriteConfig(p)
    \/ RunSync(p)
    \/ RsCheckDone(p)
    \/ RsSyncDone(p)
    \/ RunBidirectionalSync(p)
    \/ BdCheck1Done(p)
    \/ BdCheck2Done(p)
    \/ BdLeg1Done(p)
    \/ BdLeg2Done(p)

NextMain == MainStep(1) \/ Tick

SpecMain == InitMain /\ [][NextMain]_vars

\* a configuration file left at the fixed path by an earlier program run
LeftoverConfig == [exists |-> TRUE, token |-> "sl.old", writer |-> 0]

\* one process that builds an engine and makes up to MaxCalls calls of
\* run_sync, run_bidirectional_sync and list_source_files on it
InitEngine ==
    /\ now = 1
    /\ tokenFile \in {AbsentFile} \cup {CompleteFile(d) : d \in TokenDicts}
    /\ cfgFile \in {NoConfigFile, LeftoverConfig}
    /\ InitProcs
    /\ NoPathMapper
    /\ NoFileMatcher
    /\ callLimit = MaxCalls
    /\ conf \in {f \in [Procs -> {OAuthConf, DirectConf}] : f[2] = DirectConf}

EngineStep(p) ==
    \/ GetAccessToken(p)
    \/ RefreshResponse(p)
    \/ TokenOpen(p)
    \/ TokenDump(p)
    \/ WriteConfig(p)
    \/ RunSync(p)
    \/ RsCheckDone(p)
    \/ RsSyncDone(p)
    \/ RunBidirectionalSync(p)
    \/ BdCheck1Done(p)
    \/ BdCheck2Done(p)
    \/ BdLeg1Done(p)
    \/ BdLeg2Done(p)
    \/ ListSourceFiles(p)
    \/ ListDone(p)

NextEngine == EngineStep(1) \/ Tick

SpecEngine == InitEngine /\ [][NextEngine]_vars

(* ------------------------------ PathMapper ----------------------------- *)
\* longest rule list handed to a PathMapper
MaxRules == 2

\* 36-character identifiers, department names, years, months and words, as
\* they occur in file paths
Uuids == {"uuid-1", "uuid-2"}
DepartmentNames == {"hr", "finance"}
Years == {"2024"}
Months == {"01"}
Words == {"docs", "user123", "report", "annual", "final", "draft"}

\* a path is a sequence of atoms: names, separators and extensions
PathAtoms ==
    Words \cup Uuids \cup DepartmentNames \cup Years \cup Months
    \cup {"/", ".", "pdf", "docx", "_", "-", " "}

\* what str.format writes for a named group that took no part in the match
NoneText == "None"

\* a regular expression is a sequence of elements between optional anchors:
\*   one   one atom out of a set: a literal, or an alternation when capturing
\*   some  (x+): one or more atoms out of a set, greedy, capturing
\*   dirs  (.*/)?: optionally, any atoms up to a separator, greedy, capturing
\* compiles says whether re.compile accepts the pattern
Lit(a) == [kind |-> "one", atoms |-> {a}, cap |-> FALSE, name |-> ""]
OneOf(S) == [kind |-> "one", atoms |-> S, cap |-> TRUE, name |-> ""]
Some(S, name) == [kind |-> "some", atoms |-> S, cap |-> TRUE, name |-> name]
Dirs == [kind |-> "dirs", atoms |-> PathAtoms, cap |-> TRUE, name |-> ""]
AnyChar == PathAtoms
NotSlash == PathAtoms \ {"/"}

Regex(start, elems, end) ==
    [compiles |-> TRUE, anchored_start |-> start, elems |-> elems,
     anchored_end |-> end]

\* a pattern re.compile rejects, such as an unbalanced parenthesis
BrokenRegex ==
    [compiles |-> FALSE, anchored_start |-> FALSE, elems |-> <<>>,
     anchored_end |-> FALSE]

\* the capturing groups of a pattern, in order
RECURSIVE GroupsOf(_)
GroupsOf(elems) ==
    IF elems = <<>> THEN <<>>
    ELSE (IF Head(elems).cap THEN <<Head(elems)>> ELSE <<>>) \o GroupsOf(Tail(elems))

Participated(e, text) == [name |-> e.name, set |-> TRUE, text |-> text]
Skipped(e) == [name |-> e.name, set |-> FALSE, text |-> <<>>]

\* how many atoms from pos on belong to S
RECURSIVE RunLength(_, _, _)
RunLength(path, pos, S) ==
    IF pos > Len(path) \/ path[pos] \notin S THEN 0
    ELSE 1 + RunLength(path, pos + 1, S)

\* the ways elements k.. can match the path from pos on, in the order the
\* backtracking matcher tries them (longest repetition first); each is the
\* end position and the groups captured
RECURSIVE MatchFrom(_, _, _, _, _)
RECURSIVE Greedy(_, _, _, _, _, _)
RECURSIVE GreedyDirs(_, _, _, _, _, _)
MatchFrom(elems, k, path, pos, groups) ==
    IF k > Len(elems) THEN <<[end |-> pos, groups |-> groups]>>
    ELSE LET e == elems[k] IN
         CASE e.kind = "one" ->
                IF pos <= Len(path) /\ path[pos] \in e.atoms
                THEN MatchFrom(elems, k + 1, path, pos + 1,
                               IF e.cap
                               THEN Append(groups, Participated(e, <<path[pos]>>))
                               ELSE groups)
                ELSE <<>>
           [] e.kind = "some" ->
                Greedy(elems, k, path, pos, groups, RunLength(path, pos, e.atoms))
           [] e.kind = "dirs" ->
                GreedyDirs(elems, k, path, pos, groups, Len(path) + 1 - pos)
                \o MatchFrom(elems, k + 1, path, pos, Append(groups, Skipped(e)))

Greedy(elems, k, path, pos, groups, n) ==
    IF n < 1 THEN <<>>
    ELSE MatchFrom(elems, k + 1, path, pos + n,
                   Append(groups, Participated(elems[k], SubSeq(path, pos, pos + n - 1))))
         \o Greedy(elems, k, path, pos, groups, n - 1)

GreedyDirs(elems, k, path, pos, groups, n) ==
    IF n < 1 THEN <<>>
    ELSE (IF path[pos + n - 1] = "/"
          THEN MatchFrom(elems, k + 1, path, pos + n,
                   Append(groups, Participated(elems[k], SubSeq(path, pos, pos + n - 1))))
          ELSE <<>>)
         \o GreedyDirs(elems, k, path, pos, groups, n - 1)

NoMatch == [found |-> FALSE, start |-> 0, end |-> 0, groups |-> <<>>]

\* the first way of matching at start that the anchors allow
MatchAt(regex, path, start) ==
    LET ways == SelectSeq(MatchFrom(regex.elems, 1, path, start, <<>>),
                          LAMBDA w : regex.anchored_end => w.end = Len(path) + 1)
    IN  IF ways = <<>> \/ (regex.anchored_start /\ start # 1) THEN NoMatch
        ELSE [found |-> TRUE, start |-> start, end |-> ways[1].end,
              groups |-> ways[1].groups]

\* regex.search from a position on: the leftmost match
RECURSIVE SearchFrom(_, _, _)
SearchFrom(regex, path, start) ==
    IF start > Len(path) + 1 THEN NoMatch
    ELSE IF MatchAt(regex, path, start).found THEN MatchAt(regex, path, start)
    ELSE SearchFrom(regex, path, start + 1)

Search(regex, path) == SearchFrom(regex, path, 1)

\* a destination pattern is a sequence of parts; raw is the text of the part
\* as written:
\*   lit  literal text
\*   ref  \n, a group reference for regex.sub
\*   ph   {name}, a named replacement field for str.format
\*   pos  {}, a positional replacement field
\*   bad  }{, braces str.format cannot parse
L(a) == [kind |-> "lit", raw |-> a, n |-> 0, name |-> ""]
Ref(n, raw) == [kind |-> "ref", raw |-> raw, n |-> n, name |-> ""]
Ph(name, raw) == [kind |-> "ph", raw |-> raw, n |-> 0, name |-> name]
Pos == [kind |-> "pos", raw |-> "{}", n |-> 0, name |-> ""]
Bad == [kind |-> "bad", raw |-> "}{", n |-> 0, name |-> ""]

\* the exception regex.sub raises while parsing the template: a reference to
\* a group the pattern does not have
SubError(regex, dest_pattern) ==
    IF \E i \in 1..Len(dest_pattern) :
          /\ dest_pattern[i].kind = "ref"
          /\ dest_pattern[i].n > Len(GroupsOf(regex.elems))
    THEN "re.error" ELSE ""

\* the replacement of one match: references are replaced by the group's text
\* (nothing for a group that took no part), everything else is literal
RECURSIVE Expand(_, _)
Expand(dest_pattern, groups) ==
    IF dest_pattern = <<>> THEN <<>>
    ELSE LET part == Head(dest_pattern) IN
         (IF part.kind = "ref" THEN groups[part.n].text ELSE <<part.raw>>)
         \o Expand(Tail(dest_pattern), groups)

\* regex.sub(dest_pattern, path): every non-overlapping match, left to
\* right, is replaced
RECURSIVE SubFrom(_, _, _, _)
SubFrom(regex, dest_pattern, path, pos) ==
    LET m == SearchFrom(regex, path, pos) IN
    IF ~m.found THEN SubSeq(path, pos, Len(path))
    ELSE SubSeq(path, pos, m.start - 1) \o Expand(dest_pattern, m.groups)
         \o SubFrom(regex, dest_pattern, path, m.end)

Sub(regex, dest_pattern, path) == SubFrom(regex, dest_pattern, path, 1)

\* match.groupdict(): the named groups
GroupDict(groups) == {groups[i].name : i \in 1..Len(groups)} \ {""}

GroupNamed(groups, name) ==
    groups[CHOOSE i \in 1..Len(groups) : groups[i].name = name]

\* '{' in dest_pattern and '}' in dest_pattern
HasBraces(dest_pattern) ==
    \E i \in 1..Len(dest_pattern) : dest_pattern[i].kind \in {"ph", "pos", "bad"}

\* the exception dest_pattern.format(**groupdict) raises: that of the first
\* part, left to right, it cannot render
RECURSIVE FormatError(_, _)
FormatError(dest_pattern, groups) ==
    IF dest_pattern = <<>> THEN ""
    ELSE LET part == Head(dest_pattern) IN
         CASE part.kind = "ph" /\ part.name \notin GroupDict(groups) -> "KeyError"
           [] part.kind = "pos" -> "IndexError"
           [] part.kind = "bad" -> "ValueError"
           [] OTHER -> FormatError(Tail(dest_pattern), groups)

\* the text dest_pattern.format(**groupdict) returns
RECURSIVE Format(_, _)
Format(dest_pattern, groups) ==
    IF dest_pattern = <<>> THEN <<>>
    ELSE LET part == Head(dest_pattern) IN
         (IF part.kind = "ph"
          THEN (IF GroupNamed(groups, part.name).set
                THEN GroupNamed(groups, part.name).text
                ELSE <<NoneText>>)
          ELSE <<part.raw>>)
         \o Format(Tail(dest_pattern), groups)

PathMapping(source_pattern, dest_pattern, enabled) ==
    [source_pattern |-> source_pattern, dest_pattern |-> dest_pattern,
     enabled |-> enabled]

\* ^(.*/)?(.+)\.pdf$
AnyPdf == Regex(TRUE, <<Dirs, Some(AnyChar, ""), Lit("."), Lit("pdf")>>, TRUE)

\* docs/user123/
UserDir == <<L("docs"), L("/"), L("user123"), L("/")>>

Filename == Ph("filename", "{filename}")

\* the three rules of create_uuid_mapping
PdfToUuid == PathMapping(AnyPdf, UserDir \o <<Filename, L("."), L("pdf")>>, TRUE)

UuidToPdf ==
    PathMapping(Regex(TRUE, <<Lit("docs"), Lit("/"), Some(NotSlash, ""), Lit("/"),
                              Some(NotSlash, ""), Lit("."), Lit("pdf")>>, TRUE),
                <<Filename, L("."), L("pdf")>>, TRUE)

OfficeToUuid ==
    PathMapping(Regex(TRUE, <<Dirs, Some(AnyChar, ""), Lit("."), OneOf({"docx"})>>, TRUE),
                UserDir \o <<Filename, L("."), Ph("extension", "{extension}")>>, TRUE)

\* the first rule of create_advanced_uuid_mapping("user123", "report")
PdfToFixedUuid ==
    PathMapping(AnyPdf, UserDir \o <<L("report"), L("."), L("pdf")>>, TRUE)

\* rules of create_custom_mapping:
\* ^(.*/)?(?P<filename>.+)\.pdf$ -> docs/user123/{filename}.pdf
NamedPdfToUuid ==
    PathMapping(Regex(TRUE, <<Dirs, Some(AnyChar, "filename"), Lit("."), Lit("pdf")>>,
                      TRUE),
                UserDir \o <<Filename, L("."), L("pdf")>>, TRUE)

\* ([^/]+)\.pdf$
PdfName == Regex(FALSE, <<Some(NotSlash, ""), Lit("."), Lit("pdf")>>, TRUE)

\* ([^/]+)\.pdf$ -> \1.docx
PdfToDocx == PathMapping(PdfName, <<Ref(1, "\\1"), L("."), L("docx")>>, TRUE)

\* ([^/]+)\.pdf$ -> \2.pdf
RefersToMissingGroup ==
    PathMapping(PdfName, <<Ref(2, "\\2"), L("."), L("pdf")>>, TRUE)

\* ([^/]+)\.pdf$ -> {}.pdf
PositionalField == PathMapping(PdfName, <<Pos, L("."), L("pdf")>>, TRUE)

\* ([^/]+)\.pdf$ -> }{.pdf
MalformedBraces == PathMapping(PdfName, <<Bad, L("."), L("pdf")>>, TRUE)

\* a source pattern that does not compile
BrokenPattern == PathMapping(BrokenRegex, <<L("report")>>, TRUE)

RuleCatalogue ==
    {PdfToUuid, UuidToPdf, OfficeToUuid, PdfToFixedUuid, NamedPdfToUuid, PdfToDocx,
     RefersToMissingGroup, PositionalField, MalformedBraces, BrokenPattern}

\* the rules a list may hold: those of the catalogue, enabled or disabled
Rules == {[r EXCEPT !.enabled = e] : r \in RuleCatalogue, e \in BOOLEAN}

\* the list create_uuid_mapping returns
CreateUuidMapping == <<PdfToUuid, UuidToPdf, OfficeToUuid>>

RuleLists == UNION {[1..n -> Rules] : n \in 0..MaxRules} \cup {CreateUuidMapping}

ReportPdf == <<"report", ".", "pdf">>

SourcePaths ==
    {ReportPdf,
     <<"docs", "/", "report", ".", "pdf">>,
     <<"docs", "/", "user123", "/", "report", ".", "pdf">>,
     <<"report", ".", "docx">>,
     <<"docs", "/", "report">>}

\* outcome of a transform_path call: the exception it raised, if any, or
\* the path it returned, the rule (by position in the list the mapper was
\* built from) that produced it, 0 for none, and the rules whose pattern was
\* searched
NoOutcome == [raises |-> "", path |-> <<>>, rule |-> 0, tried |-> <<>>]

ReturnsNothing(path, tried) ==
    [raises |-> "", path |-> <<>>, rule |-> 0, tried |-> tried]

\* return source_path
ReturnsUnchanged(path, tried) ==
    [raises |-> "", path |-> path, rule |-> 0, tried |-> tried]

IgnoresEnabled(m) == TRUE

\* m.enabled
IsEnabled(m) == m.enabled

\* PathMapper.__init__: the enabled rules whose pattern compiles, in order
RECURSIVE CompileFrom(_, _)
CompileFrom(ms, i) ==
    IF i > Len(ms) THEN <<>>
    ELSE (IF IsEnabled(ms[i]) /\ ms[i].source_pattern.compiles
          THEN <<[source_regex |-> ms[i].source_pattern,
                  dest_pattern |-> ms[i].dest_pattern, mapping |-> i]>>
          ELSE <<>>)
         \o CompileFrom(ms, i + 1)

CompiledMappings(ms) == CompileFrom(ms, 1)

\* the try block of transform_path for a rule that matched: the exception
\* raised, if any, or the destination path
ApplyMapping(c, path, match) ==
    IF SubError(c.source_regex, c.dest_pattern) # ""
    THEN [raises |-> SubError(c.source_regex, c.dest_pattern), path |-> <<>>]
    ELSE IF HasBraces(c.dest_pattern)
    THEN [raises |-> FormatError(c.dest_pattern, match.groups),
          path |-> IF FormatError(c.dest_pattern, match.groups) = ""
                   THEN Format(c.dest_pattern, match.groups) ELSE <<>>]
    ELSE [raises |-> "", path |-> Sub(c.source_regex, c.dest_pattern, path)]

\* except (KeyError, ValueError)
Caught(raises) == raises \in {"KeyError", "ValueError"}

\* the loop of transform_path from the k-th compiled rule on
RECURSIVE TransformFrom(_, _, _, _)

GivesUp(compiled, k, path, tried) ==
    [raises |-> "", path |-> path, rule |-> 0, tried |-> tried]

\* what follows a rule whose template raised a caught exception: continue
Continue(compiled, k, path, tried) == TransformFrom(compiled, k + 1, path, tried)

TransformFrom(compiled, k, path, tried) ==
    IF k > Len(compiled) THEN ReturnsUnchanged(path, tried)
    ELSE LET c == compiled[k]
             match == Search(c.source_regex, path)
             seen == Append(tried, c.mapping)
         IN  IF ~match.found THEN TransformFrom(compiled, k + 1, path, seen)
             ELSE LET applied == ApplyMapping(c, path, match) IN
                  IF applied.raises = ""
                  THEN [raises |-> "", path |-> applied.path, rule |-> c.mapping,
                        tried |-> seen]
                  ELSE IF Caught(applied.raises)
                  THEN Continue(compiled, k, path, seen)
                  ELSE [raises |-> applied.raises, path |-> <<>>, rule |-> c.mapping,
                        tried |-> seen]

\* PathMapper.transform_path
TransformPathOf(compiled, path) ==
    IF compiled = <<>> THEN ReturnsUnchanged(path, <<>>)
    ELSE TransformFrom(compiled, 1, path, <<>>)

NotBuilt ==
    [stage |-> "none", compiled_mappings |-> <<>>, first |-> NoOutcome,
     second |-> NoOutcome]

\* PathMapper(mappings)
NewPathMapper ==
    /\ transformed.stage = "none"
    /\ transformed' = [transformed EXCEPT !.stage = "built",
                          !.compiled_mappings = CompiledMappings(mappings)]
    /\ UNCHANGED <<now, tokenFile, cfgFile, callLimit, requested, exchange, mappings,
                   source_path, fmVars, pc, conf, tokVars, callVars>>

\* mapper.transform_path(source_path)
TransformPath ==
    /\ transformed.stage = "built"
    /\ transformed' = [transformed EXCEPT !.stage = "once",
            !.first = TransformPathOf(transformed.compiled_mappings, source_path)]
    /\ UNCHANGED <<now, tokenFile, cfgFile, callLimit, requested, exchange, mappings,
                   source_path, fmVars, pc, conf, tokVars, callVars>>

\* mapper.transform_path applied to the path it returned
TransformPathAgain ==
    /\ transformed.stage = "once"
    /\ transformed.first.raises = ""
    /\ transformed' = [transformed EXCEPT !.stage = "twice",
            !.second = TransformPathOf(transformed.compiled_mappings,
                                       transformed.first.path)]
    /\ UNCHANGED <<now, tokenFile, cfgFile, callLimit, requested, exchange, mappings,
                   source_path, fmVars, pc, conf, tokVars, callVars>>

\* a PathMapper built from any rule list and applied to any path
InitPM ==
    /\ now = 1
    /\ tokenFile = AbsentFile
    /\ cfgFile = NoConfigFile
    /\ InitProcs
    /\ NoFileMatcher
    /\ callLimit = 1
    /\ conf = [p \in Procs |-> DirectConf]
    /\ mappings \in RuleLists
    /\ source_path \in SourcePaths
    /\ transformed = NotBuilt

NextPM == NewPathMapper \/ TransformPath \/ TransformPathAgain

SpecPM == InitPM /\ [][NextPM]_vars

(* ------------------------------ FileMatcher ---------------------------- *)
\* most candidates handed to find_best_match
MaxCandidates == 2

\* dict.update(other)
DictUpdate(d, other) ==
    [k \in (DOMAIN d) \cup (DOMAIN other) |->
        IF k \in DOMAIN other THEN other[k] ELSE d[k]]

\* docs/([a-f0-9-]{36})/([a-f0-9-]{36})\.(.+)$
UuidPattern ==
    Regex(FALSE, <<Lit("docs"), Lit("/"), OneOf(Uuids), Lit("/"), OneOf(Uuids),
                   Lit("."), Some(AnyChar, "")>>, TRUE)

\* docs/([^/]+)/(.+)\.(.+)$
DeptPattern ==
    Regex(FALSE, <<Lit("docs"), Lit("/"), Some(NotSlash, ""), Lit("/"),
                   Some(AnyChar, ""), Lit("."), Some(AnyChar, "")>>, TRUE)

\* (.*/)?(\d{4})/(\d{2})/(.+)\.(.+)$
DatePattern ==
    Regex(FALSE, <<Dirs, OneOf(Years), Lit("/"), OneOf(Months), Lit("/"),
                   Some(AnyChar, ""), Lit("."), Some(AnyChar, "")>>, TRUE)

\* match.group(n)
Group(match, n) == match.groups[n].text

UuidMetadata(match) ==
    [k \in {"user_uuid", "file_uuid", "extension", "source", "structure"} |->
        CASE k = "user_uuid" -> Group(match, 1)
          [] k = "file_uuid" -> Group(match, 2)
          [] k = "extension" -> Group(match, 3)
          [] k = "source" -> <<"s3">>
          [] k = "structure" -> <<"uuid">>]

DeptMetadata(match) ==
    [k \in {"department", "filename", "extension", "source", "structure"} |->
        CASE k = "department" -> Group(match, 1)
          [] k = "filename" -> Group(match, 2)
          [] k = "extension" -> Group(match, 3)
          [] k = "source" -> <<"s3">>
          [] k = "structure" -> <<"department">>]

DateMetadata(match) ==
    [k \in {"year", "month", "filename", "extension", "source", "structure"} |->
        CASE k = "year" -> Group(match, 2)
          [] k = "month" -> Group(match, 3)
          [] k = "filename" -> Group(match, 4)
          [] k = "extension" -> Group(match, 5)
          [] k = "source" -> <<"s3">>
          [] k = "structure" -> <<"date">>]

\* FileMatcher.extract_metadata_from_path
ExtractMetadataFromPath(path) ==
    LET uuid == Search(UuidPattern, path)
        dept == Search(DeptPattern, path)
        date == Search(DatePattern, path)
        m1 == IF uuid.found THEN DictUpdate(EmptyDict, UuidMetadata(uuid)) ELSE EmptyDict
        m2 == IF dept.found /\ Group(dept, 1) \in {<<d>> : d \in DepartmentNames}
              THEN DictUpdate(m1, DeptMetadata(dept)) ELSE m1
    IN  IF date.found THEN DictUpdate(m2, DateMetadata(date)) ELSE m2

\* a confidence is a fraction <<numerator, denominator>>
Zero == <<0, 1>>
One == <<1, 1>>
Greater(a, b) == a[1] * b[2] > b[1] * a[2]

CountCommon(m1, m2, keys) == Cardinality(keys)

\* the common keys on which the two dicts agree
CountEqual(m1, m2, keys) == Cardinality({k \in keys : m1[k] = m2[k]})

\* FileMatcher._calculate_metadata_similarity
CalculateMetadataSimilarity(metadata1, metadata2) ==
    LET common_keys == (DOMAIN metadata1) \cap (DOMAIN metadata2) IN
    IF DOMAIN metadata1 = {} \/ DOMAIN metadata2 = {} THEN Zero
    ELSE IF common_keys = {} THEN Zero
    ELSE <<CountEqual(metadata1, metadata2, common_keys), Cardinality(common_keys)>>

\* the last position of atom a in seq, 0 if it does not occur
RECURSIVE LastIndexOf(_, _)
LastIndexOf(seq, a) ==
    IF seq = <<>> THEN 0
    ELSE IF seq[Len(seq)] = a THEN Len(seq)
    ELSE LastIndexOf(SubSeq(seq, 1, Len(seq) - 1), a)

\* Path(path).stem: the last component without its last suffix
Stem(path) ==
    LET name == SubSeq(path, LastIndexOf(path, "/") + 1, Len(path))
        i == LastIndexOf(name, ".")
    IN  IF 1 < i /\ i < Len(name) THEN SubSeq(name, 1, i - 1) ELSE name

Separators == {"-", "_"}
TwoDigits == Months
Digits == Years \cup TwoDigits

\* ^(invoice|report|document|file)[-_] replaced by nothing
StripPrefix(stem) ==
    IF Len(stem) >= 2 /\ stem[1] \in {"invoice", "report", "document", "file"}
       /\ stem[2] \in Separators
    THEN SubSeq(stem, 3, Len(stem)) ELSE stem

\* [-_](draft|final|version|v\d+)$ replaced by nothing
StripSuffix(stem) ==
    IF Len(stem) >= 2 /\ stem[Len(stem)] \in {"draft", "final", "version"}
       /\ stem[Len(stem) - 1] \in Separators
    THEN SubSeq(stem, 1, Len(stem) - 2) ELSE stem

\* the atoms from position i on have the given shape (a sequence of sets)
HasShape(stem, i, shape) ==
    /\ i + Len(shape) - 1 <= Len(stem)
    /\ \A k \in 1..Len(shape) : stem[i + k - 1] \in shape[k]

\* re.sub of a pattern of the given shape by one atom
RECURSIVE ReplaceShape(_, _, _)
ReplaceShape(stem, shape, by) ==
    IF stem = <<>> THEN <<>>
    ELSE IF HasShape(stem, 1, shape)
    THEN <<by>> \o ReplaceShape(SubSeq(stem, Len(shape) + 1, Len(stem)), shape, by)
    ELSE <<Head(stem)>> \o ReplaceShape(Tail(stem), shape, by)

RECURSIVE DropDigits(_)
DropDigits(stem) ==
    IF stem # <<>> /\ Head(stem) \in Digits THEN DropDigits(Tail(stem)) ELSE stem

\* #?\d+ replaced by NUMBER: one replacement for each run of digits
RECURSIVE ReplaceNumbers(_)
ReplaceNumbers(stem) ==
    IF stem = <<>> THEN <<>>
    ELSE IF Head(stem) \in Digits THEN <<"number">> \o ReplaceNumbers(DropDigits(stem))
    ELSE <<Head(stem)>> \o ReplaceNumbers(Tail(stem))

\* \d{4}[-/]\d{2}[-/]\d{2} and \d{2}[-/]\d{2}[-/]\d{4} replaced by DATE, then
\* #?\d+ by NUMBER; (v|version|rev)\d+ finds no digits left. The replacements
\* are written as str.lower() leaves them before the words are compared
ReplaceDatesAndNumbers(stem) ==
    LET d1 == ReplaceShape(stem, <<Years, {"-", "/"}, TwoDigits, {"-", "/"}, TwoDigits>>,
                           "date")
        d2 == ReplaceShape(d1, <<TwoDigits, {"-", "/"}, TwoDigits, {"-", "/"}, Years>>,
                           "date")
    IN  ReplaceNumbers(d2)

\* [^\w\s] removed: the underscore is a word character and stays
RemovePunctuation(stem) == SelectSeq(stem, LAMBDA a : a \notin {"-", ".", "/"})

\* str.split(): the words, each the sequence of atoms between blanks
RECURSIVE Split(_, _)
Split(stem, word) ==
    IF stem = <<>> THEN (IF word = <<>> THEN {} ELSE {word})
    ELSE IF Head(stem) = " "
    THEN (IF word = <<>> THEN {} ELSE {word}) \cup Split(Tail(stem), <<>>)
    ELSE Split(Tail(stem), Append(word, Head(stem)))

\* the normalisation of a file name in find_matches_by_filename_pattern, as
\* the set of words of the normalised name
NormalizedWords(path) ==
    Split(RemovePunctuation(ReplaceDatesAndNumbers(StripSuffix(StripPrefix(Stem(path))))),
          <<>>)

\* FileMatcher._calculate_string_similarity
CalculateStringSimilarity(words1, words2) ==
    IF words1 = {} \/ words2 = {} THEN Zero
    ELSE <<Cardinality(words1 \cap words2), Cardinality(words1 \cup words2)>>

\* what is on disk at a path: nothing, something open() fails on, or a
\* file with some content; c1x differs from c1 and has the same MD5 digest
Contents == {"c1", "c1x", "c2"}
DiskStates == {"missing", "unreadable"} \cup Contents

\* hashlib.md5 of a content
Digest(content) == IF content = "c2" THEN "h2" ELSE "h1"

\* FileMatcher.calculate_file_hash: None (written "") when the file cannot
\* be read
CalculateFileHash(disk) == IF disk \in Contents THEN Digest(disk) ELSE ""

\* a candidate dict: its path, its local_path if it has one, and what is on
\* disk at the path content matching looks at
Candidate(path, local_path, disk) ==
    [path |-> path, local_path |-> local_path, disk |-> disk]

HrReport == <<"docs", "/", "hr", "/", "report", ".", "pdf">>
FinanceReport == <<"docs", "/", "finance", "/", "report", ".", "pdf">>
UuidFile == <<"docs", "/", "uuid-1", "/", "uuid-2", ".", "pdf">>
DatedReport == <<"2024", "/", "01", "/", "annual", " ", "report", ".", "pdf">>
FinalReport == <<"report", "_", "final", ".", "pdf">>

SourceFiles ==
    {[path |-> p, disk |-> d] :
        p \in {HrReport, DatedReport, FinalReport}, d \in {"c1", "unreadable", "missing"}}

CandidateCatalogue ==
    {Candidate(FinanceReport, "", "c1"),
     Candidate(FinanceReport, "", "c2"),
     Candidate(HrReport, "", "c2"),
     Candidate(HrReport, "/cache/hr", "c1x"),
     Candidate(UuidFile, "/cache/uuid", "c1"),
     Candidate(UuidFile, "", "missing"),
     Candidate(DatedReport, "", "c2"),
     Candidate(DatedReport, "/cache/dated", "c1"),
     Candidate(FinalReport, "", "unreadable"),
     Candidate(<<>>, "", "missing")}

\* candidate.get('local_path') or candidate.get('path', '')
CandidatePath(candidate) ==
    IF candidate.local_path # "" THEN [local |-> candidate.local_path, path |-> <<>>]
    ELSE [local |-> "", path |-> candidate.path]

\* one path holds one file: candidates with the same path see the same
\* disk, and a candidate at the source's own path sees the source file
OneFilesystem(source, candidates) ==
    /\ \A i, j \in 1..Len(candidates) :
          CandidatePath(candidates[i]) = CandidatePath(candidates[j]) =>
              candidates[i].disk = candidates[j].disk
    /\ \A i \in 1..Len(candidates) :
          CandidatePath(candidates[i]) = [local |-> "", path |-> source.path] =>
              candidates[i].disk = source.disk

CandidateLists == UNION {[1..n -> CandidateCatalogue] : n \in 0..MaxCandidates}

StrictMetadataThreshold == <<7, 10>>

\* confidence > 0.5
MetadataThreshold == <<5, 10>>

\* similarity > 0.7
FilenameThreshold == <<7, 10>>

Match(candidate, match_type, match_confidence) ==
    [candidate |-> candidate, match_type |-> match_type,
     match_confidence |-> match_confidence]

\* FileMatcher.find_matches_by_content
RECURSIVE FindMatchesByContent(_, _)
FindMatchesByContent(source, candidates) ==
    IF CalculateFileHash(source.disk) = "" \/ candidates = <<>> THEN <<>>
    ELSE LET candidate == Head(candidates)
             candidate_path == CandidatePath(candidate)
         IN  (IF /\ candidate_path # [local |-> "", path |-> <<>>]
                 /\ candidate.disk # "missing"
                 /\ CalculateFileHash(candidate.disk) # ""
                 /\ CalculateFileHash(candidate.disk) = CalculateFileHash(source.disk)
              THEN <<Match(candidate, "content_hash", One)>>
              ELSE <<>>)
             \o FindMatchesByContent(source, Tail(candidates))

\* FileMatcher.find_matches_by_metadata
RECURSIVE FindMatchesByMetadata(_, _)
FindMatchesByMetadata(source, candidates) ==
    IF candidates = <<>> THEN <<>>
    ELSE LET candidate == Head(candidates)
             confidence ==
                 CalculateMetadataSimilarity(ExtractMetadataFromPath(source.path),
                                             ExtractMetadataFromPath(candidate.path))
         IN  (IF Greater(confidence, MetadataThreshold)
              THEN <<Match(candidate, "metadata", confidence)>> ELSE <<>>)
             \o FindMatchesByMetadata(source, Tail(candidates))

\* FileMatcher.find_matches_by_filename_pattern
RECURSIVE FindMatchesByFilenamePattern(_, _)
FindMatchesByFilenamePattern(source, candidates) ==
    IF candidates = <<>> THEN <<>>
    ELSE LET candidate == Head(candidates)
             similarity ==
                 CalculateStringSimilarity(NormalizedWords(source.path),
                                           NormalizedWords(candidate.path))
         IN  (IF Greater(similarity, FilenameThreshold)
              THEN <<Match(candidate, "filename_pattern", similarity)>> ELSE <<>>)
             \o FindMatchesByFilenamePattern(source, Tail(candidates))

ContentLast(content_matches, metadata_matches, pattern_matches) ==
    metadata_matches \o pattern_matches \o content_matches

\* all_matches: the three passes' matches in the order they are added
AllMatches(content_matches, metadata_matches, pattern_matches) ==
    content_matches \o metadata_matches \o pattern_matches

MaxLast(all_matches) ==
    all_matches[CHOOSE i \in 1..Len(all_matches) :
        /\ \A j \in 1..Len(all_matches) :
              ~Greater(all_matches[j].match_confidence, all_matches[i].match_confidence)
        /\ \A j \in (i + 1)..Len(all_matches) :
              Greater(all_matches[i].match_confidence, all_matches[j].match_confidence)]

\* max(all_matches, key=match_confidence): the first of the greatest
Max(all_matches) ==
    all_matches[CHOOSE i \in 1..Len(all_matches) :
        /\ \A j \in 1..Len(all_matches) :
              ~Greater(all_matches[j].match_confidence, all_matches[i].match_confidence)
        /\ \A j \in 1..(i - 1) :
              Greater(all_matches[i].match_confidence, all_matches[j].match_confidence)]

NoBest == Match(Candidate(<<>>, "", ""), "", Zero)

NotSearched == [done |-> FALSE, found |-> FALSE, match |-> NoBest]

\* FileMatcher.find_best_match: None (found FALSE) or the best match
FindBestMatchOf(source, candidates) ==
    LET all_matches == AllMatches(FindMatchesByContent(source, candidates),
                                  FindMatchesByMetadata(source, candidates),
                                  FindMatchesByFilenamePattern(source, candidates))
    IN  IF all_matches = <<>> THEN [done |-> TRUE, found |-> FALSE, match |-> NoBest]
        ELSE [done |-> TRUE, found |-> TRUE, match |-> Max(all_matches)]

\* matcher.find_best_match(file_path, candidate_files)
FindBestMatch ==
    /\ ~best_match.done
    /\ best_match' = FindBestMatchOf(file_path, candidate_files)
    /\ UNCHANGED <<now, tokenFile, cfgFile, callLimit, requested, exchange, pmVars, file_path,
                   candidate_files, metadata_pair, metadata_similarity, pc, conf,
                   tokVars, callVars>>

\* any source file and any candidate list on one filesystem
InitFM ==
    /\ now = 1
    /\ tokenFile = AbsentFile
    /\ cfgFile = NoConfigFile
    /\ InitProcs
    /\ NoPathMapper
    /\ callLimit = 1
    /\ conf = [p \in Procs |-> DirectConf]
    /\ file_path \in SourceFiles
    /\ candidate_files \in CandidateLists
    /\ OneFilesystem(file_path, candidate_files)
    /\ best_match = NotSearched
    /\ metadata_pair = <<>>
    /\ metadata_similarity = <<>>

NextFM == FindBestMatch

SpecFM == InitFM /\ [][NextFM]_vars

(* ------------------- _calculate_metadata_similarity -------------------- *)

\* how many distinct keys the dicts of a call may use
MaxKeys == 3

MetadataKeys == <<"source", "structure", "extension", "filename", "department">>
MetadataValues == {<<"s3">>, <<"dropbox">>}

\* every dict over the first MaxKeys keys
MetadataDicts ==
    UNION {[S -> MetadataValues] : S \in SUBSET {MetadataKeys[i] : i \in 1..MaxKeys}}

NotCalculated == [done |-> FALSE, raises |-> "", value |-> Zero]

\* matches / len(common_keys), a float division
Divide(fraction) ==
    IF fraction[2] = 0
    THEN [done |-> TRUE, raises |-> "ZeroDivisionError", value |-> Zero]
    ELSE [done |-> TRUE, raises |-> "", value |-> fraction]

\* matcher._calculate_metadata_similarity(metadata1, metadata2)
CalculateSimilarity ==
    /\ ~metadata_similarity.done
    /\ metadata_similarity' =
           Divide(CalculateMetadataSimilarity(metadata_pair[1], metadata_pair[2]))
    /\ UNCHANGED <<now, tokenFile, cfgFile, callLimit, requested, exchange, pmVars, file_path,
                   candidate_files, best_match, metadata_pair, pc, conf, tokVars,
                   callVars>>

\* any two metadata dicts
InitMS ==
    /\ now = 1
    /\ tokenFile = AbsentFile
    /\ cfgFile = NoConfigFile
    /\ InitProcs
    /\ NoPathMapper
    /\ callLimit = 1
    /\ conf = [p \in Procs |-> DirectConf]
    /\ file_path = <<>>
    /\ candidate_files = <<>>
    /\ best_match = <<>>
    /\ metadata_pair \in MetadataDicts \X MetadataDicts
    /\ metadata_similarity = NotCalculated

NextMS == CalculateSimilarity

SpecMS == InitMS /\ [][NextMS]_vars

(* ------------------------------- claims -------------------------------- *)
\* the results of the sync methods that the last call of p reported
ReportedSyncResults(p) ==
    IF lastResult[p].outcome = "returned"
       /\ (lastResult[p].op = "run_sync"
           \/ lastResult[p].results_key \in {"results", "partial_results"})
    THEN lastResult[p].results
    ELSE <<>>

\* C1: a sync method reports a non-zero exit to its caller only after the
\* tool has been invoked MaxAttempts times (it is re-invoked after each
\* non-zero exit until it exits zero or 3 attempts have been made).
C1_RetriedBeforeFailure ==
    \A p \in Procs : \A i \in 1..Len(ReportedSyncResults(p)) :
        ~ReportedSyncResults(p)[i].success
            => ReportedSyncResults(p)[i].attempts = MaxAttempts

\* C2: once a run_sync or run_bidirectional_sync call has ended, by
\* returning or by raising, the rclone configuration file does not exist.
C2_ConfigRemovedAfterRun ==
    \A p \in Procs :
        lastResult[p].outcome \in {"returned", "raised"} => ~cfgFile.exists

BidiEnded(p) ==
    /\ lastResult[p].outcome = "returned"
    /\ lastResult[p].op = "run_bidirectional_sync"
    /\ ~lastResult[p].dry_run

Leg2Attempted(p) ==
    \E i \in 1..Len(log[p]) :
        log[p][i].args.op = "sync" /\ log[p][i].args.source = Bucket

BothLegsReported(p) ==
    /\ lastResult[p].results_key = "results"
    /\ Len(lastResult[p].results) = 2
    /\ lastResult[p].results[1].direction = "dropbox_to_s3"
    /\ lastResult[p].results[2].direction = "s3_to_dropbox"
    /\ lastResult[p].success =
          (lastResult[p].results[1].success /\ lastResult[p].results[2].success)

\* C3 as stated: every non-dry-run bidirectional sync attempts the
\* s3-to-dropbox leg, returns the results of both legs, and succeeds exactly
\* when both legs did.
C3_BothLegsAlways ==
    \A p \in Procs : BidiEnded(p) => Leg2Attempted(p) /\ BothLegsReported(p)

Faulted(p) == \E i \in 1..Len(log[p]) : log[p][i].outcome = "fault"

\* C3 amended: when the tool invocation of each leg ends with an exit code,
\* leg 2 is attempted whatever leg 1's exit code, both results are returned
\* and success is true exactly when both legs succeeded; when an invocation
\* raises instead, the call returns success=false with the results of the
\* legs completed before it under partial_results, and leg 2 is attempted
\* exactly when leg 1's invocation did not raise.
C3_BothLegsUnlessFault ==
    \A p \in Procs : BidiEnded(p) =>
        /\ ~Faulted(p) => Leg2Attempted(p) /\ BothLegsReported(p)
        /\ Faulted(p) =>
              /\ ~lastResult[p].success
              /\ lastResult[p].results_key = "partial_results"
              /\ Len(lastResult[p].results) = Len(log[p]) - 1
        /\ Leg2Attempted(p) <=> log[p][1].outcome # "fault"

\* leg 1 failed, leg 2 succeeded: success=false with both results present
C3_Witness ==
    /\ BidiEnded(1)
    /\ Len(lastResult[1].results) = 2
    /\ ~lastResult[1].results[1].success
    /\ lastResult[1].results[2].success
    /\ ~lastResult[1].success

IsOAuth(p) == conf[p].use_oauth /\ conf[p].has_oauth

\* get_access_token of p has read a complete token file
TokenLoaded(p) ==
    /\ IsOAuth(p)
    /\ pc[p] \notin {"new", "status_done"}
    /\ loaded[p].state = "complete"

\* the persisted state p read has both timestamps
Stamped(p) ==
    /\ "issued_at" \in DOMAIN loaded[p].data
    /\ "expires_in" \in DOMAIN loaded[p].data

\* now - issued_at < expires_in - 300 held when p read the persisted state
FreshAtCall(p) ==
    /\ TokenLoaded(p)
    /\ Stamped(p)
    /\ tokTime[p] - loaded[p].data["issued_at"]
          < loaded[p].data["expires_in"] - 300

\* now - issued_at >= expires_in - 300 held when p read the persisted state
DueAtCall(p) ==
    /\ TokenLoaded(p)
    /\ Stamped(p)
    /\ tokTime[p] - loaded[p].data["issued_at"]
          >= loaded[p].data["expires_in"] - 300

\* C4: for a persisted state with now - issued_at < expires_in - 300,
\* get_access_token returns the persisted access_token, issues no refresh
\* call and leaves the token file as it was.
C4_FreshTokenIsReturned ==
    \A p \in Procs : FreshAtCall(p) =>
        /\ tokRes[p] = loaded[p].data["access_token"]
        /\ tokErr[p] = ""
        /\ refreshCalls[p] = 0
        /\ tokWrites[p] = 0
        /\ tokenFile = loaded[p]

C4_Witness == FreshAtCall(1) /\ pc[1] = "write_config" /\ tokRes[1] = "a0"

\* C5: for a persisted state with now - issued_at >= expires_in - 300, a
\* successful get_access_token has issued exactly one refresh call, returns
\* the access_token of the refresh response, and the persisted issued_at is
\* strictly greater than before.
C5_DueTokenIsRefreshed ==
    \A p \in Procs : (DueAtCall(p) /\ tokRes[p] # "") =>
        /\ refreshCalls[p] = 1
        /\ tokRes[p] \in NewTokens
        /\ tokenFile.state = "complete"
        /\ tokenFile.data["access_token"] = tokRes[p]
        /\ tokenFile.data["issued_at"] > loaded[p].data["issued_at"]

C5_Witness ==
    /\ DueAtCall(1)
    /\ pc[1] = "write_config"
    /\ tokRes[1] = "a2"
    /\ loaded[1].data["issued_at"] = 1

RefreshErrors == {"http_error", "no_refresh_token", "key_error"}

\* C6: when the refresh fails (endpoint error, no refresh_token, response
\* without access_token), get_access_token fails with that error, returns no
\* token, and the token file is exactly what it was before the call.
C6_FailedRefreshKeepsFile ==
    \A p \in Procs : (IsOAuth(p) /\ tokErr[p] \in RefreshErrors) =>
        /\ pc[p] = "ctor_failed"
        /\ tokRes[p] = ""
        /\ tokWrites[p] = 0
        /\ tokenFile = loaded[p]

C6_Witness ==
    /\ tokErr[1] = "key_error"
    /\ refreshCalls[1] = 1
    /\ pc[1] = "ctor_failed"

\* C7: the token file is never empty or partial: not on disk at any point,
\* crash points included, and not in what any reader loads from it.
C7_AtomicRewrite ==
    /\ tokenFile.state # "truncated"
    /\ \A p \in Procs : loaded[p].state # "truncated"

\* C8: while a process has a tool invocation in flight, the configuration
\* file is the one that process wrote: no other process has overwritten or
\* deleted it.
C8_ExclusiveConfig ==
    \A p \in Procs : inflight[p] > 0 =>
        cfgFile = [exists |-> TRUE, token |-> tokRes[p], writer |-> p]

\* C9: a process never has two tool invocations in flight, every invocation
\* but the last started has ended, and the s3-to-dropbox leg of a
\* bidirectional sync starts only once the dropbox-to-s3 leg has returned
\* its result.
C9_OneInvocationAtATime ==
    \A p \in Procs :
        /\ inflight[p] <= 1
        /\ \A i \in 1..(Len(log[p]) - 1) : log[p][i].outcome # ""
        /\ pc[p] = "bd_leg2" =>
              /\ Len(results[p]) = 1
              /\ results[p][1].direction = "dropbox_to_s3"

C9_Witness == pc[1] = "bd_leg2" /\ inflight[1] = 1 /\ Len(log[1]) = 2

\* C10: with no token file, get_access_token of an oauth credential fails
\* with the error that tells the caller to run the OAuth flow first, makes
\* no token-endpoint call and does not create the file.
C10_MissingTokenFile ==
    \A p \in Procs :
        (IsOAuth(p) /\ pc[p] \notin {"new", "status_done"} /\ loaded[p].state = "absent") =>
            /\ tokErr[p] = "token_file_not_found"
            /\ tokRes[p] = ""
            /\ pc[p] = "ctor_failed"
            /\ refreshCalls[p] = 0
            /\ tokWrites[p] = 0
            /\ tokenFile.state = "absent"

C10_Witness == IsOAuth(1) /\ tokErr[1] = "token_file_not_found"

NamedDirections == {"dropbox_to_s3", "s3_to_dropbox", "bidirectional"}

ViaMain(p) == requested[p] # NoRequest

RunSyncRaised(p) == lastResult[p].outcome = "raised"

NothingInvoked(p) == log[p] = <<>> /\ inflight[p] = 0

\* C11 as stated: a direction is rejected (main exits, or run_sync raises)
\* exactly when it is not one of dropbox_to_s3, s3_to_dropbox, bidirectional,
\* and a rejection comes before any tool invocation.
C11_ThreeDirectionsAccepted ==
    /\ RunSyncRaised(1) =>
         /\ call[1].direction \notin NamedDirections
         /\ NothingInvoked(1)
    /\ (call[1].op = "run_sync" /\ call[1].direction \notin NamedDirections) =>
         RunSyncRaised(1)
    /\ (ViaMain(1) /\ requested[1].direction \notin NamedDirections) =>
         pc[1] = "exited" /\ NothingInvoked(1)

\* C11 amended: main accepts exactly the three named directions (and the
\* three named strategies) and exits before the engine is built and before
\* any tool invocation otherwise, and never lets run_sync raise; run_sync
\* itself accepts exactly dropbox_to_s3 and s3_to_dropbox and raises, before
\* any tool invocation, for every other direction, bidirectional included.
C11_DirectionValidation ==
    /\ ViaMain(1) =>
         /\ pc[1] = "exited" <=>
                ~(/\ requested[1].direction \in NamedDirections
                  /\ requested[1].strategy \in Strategies)
         /\ pc[1] = "exited" =>
                NothingInvoked(1) /\ ncalls[1] = 0 /\ ~cfgFile.exists
         /\ ~RunSyncRaised(1)
         /\ call[1] # NoCall =>
                /\ call[1].op = "run_bidirectional_sync" <=>
                       requested[1].direction = "bidirectional"
                /\ call[1].op = "run_sync" =>
                       call[1].direction = requested[1].direction
                /\ call[1].op = "run_bidirectional_sync" =>
                       call[1].strategy = requested[1].strategy
    /\ RunSyncRaised(1) <=>
         /\ call[1].op = "run_sync"
         /\ call[1].direction \notin {"dropbox_to_s3", "s3_to_dropbox"}
    /\ RunSyncRaised(1) => NothingInvoked(1)

C11_Witness ==
    /\ ~ViaMain(1)
    /\ RunSyncRaised(1)
    /\ call[1].direction = "bidirectional"

\* the i-th tool invocation of the current call of p was made by
\* check_sync_needed: the preview of a live run_sync, or any invocation of a
\* dry-run bidirectional sync
MadeByCheck(p, i) ==
    \/ call[p].op = "run_sync" /\ ~call[p].dry_run /\ i = 1
    \/ call[p].op = "run_bidirectional_sync" /\ call[p].dry_run

TransferFlags == PerformanceFlags \cup {"--max-transfer"}

NeverMutates(args) ==
    /\ args.op = "check"
    /\ "--dry-run" \in args.flags
    /\ args.flags \cap TransferFlags = {}

\* C12: every tool invocation made by check_sync_needed is a check
\* operation with --dry-run and without any transfer argument, whatever the
\* exit codes of this and of the earlier invocations
C12_CheckNeverMutates ==
    \A i \in 1..Len(log[1]) : MadeByCheck(1, i) => NeverMutates(log[1][i].args)

C12_Witness ==
    /\ call[1].op = "run_bidirectional_sync"
    /\ call[1].dry_run
    /\ Len(log[1]) = 2
    /\ log[1][1].outcome = "exit1"
    /\ log[1][2].outcome = "exit0"

InBidi(p) == call[p].op = "run_bidirectional_sync"

BidiReturned(p) ==
    /\ InBidi(p)
    /\ lastResult[p].outcome = "returned"

\* the first n tool invocations of the two processes ended the same way
SameOutcomes(n) == \A i \in 1..n : log[1][i].outcome = log[2][i].outcome

Unlabelled(r) == [r EXCEPT !.strategy = ""]

Transformed == transformed.stage \in {"once", "twice"}

\* the i-th rule of the list is enabled and its pattern compiles and matches
\* the source path
Matches(i) ==
    /\ mappings[i].enabled
    /\ mappings[i].source_pattern.compiles
    /\ Search(mappings[i].source_pattern, source_path).found

\* what the i-th rule alone makes of the source path
Alone(i) ==
    ApplyMapping([source_regex |-> mappings[i].source_pattern,
                  dest_pattern |-> mappings[i].dest_pattern, mapping |-> i],
                 source_path, Search(mappings[i].source_pattern, source_path))

WithoutDisabled(ms) == SelectSeq(ms, LAMBDA m : m.enabled)

SameOutput(a, b) == a.raises = b.raises /\ a.path = b.path

\* C14: transform_path gives what it gives for the list without its
\* disabled rules; if no enabled rule matches, the path is returned as it is
C14_DisabledNeverMatched ==
    Transformed =>
        /\ SameOutput(transformed.first,
                      TransformPathOf(CompiledMappings(WithoutDisabled(mappings)),
                                      source_path))
        /\ \A i \in 1..Len(mappings) : ~mappings[i].enabled =>
               /\ transformed.first.rule # i
               /\ \A k \in 1..Len(transformed.first.tried) :
                      transformed.first.tried[k] # i
        /\ (\A i \in 1..Len(mappings) : ~Matches(i)) =>
               transformed.first = ReturnsUnchanged(source_path, transformed.first.tried)

C14_Witness ==
    /\ Transformed
    /\ Len(mappings) = 2
    /\ mappings[1] = [PdfToFixedUuid EXCEPT !.enabled = FALSE]
    /\ mappings[2] = OfficeToUuid
    /\ source_path = ReportPdf
    /\ transformed.first.path = ReportPdf

\* the first rule of the list that matches the source path, 0 if none does
FirstMatching ==
    IF \E i \in 1..Len(mappings) : Matches(i)
    THEN CHOOSE i \in 1..Len(mappings) :
            Matches(i) /\ \A j \in 1..(i - 1) : ~Matches(j)
    ELSE 0

\* the i-th rule matches and its template renders without an exception of
\* the kinds transform_path catches
Renders(i) == Matches(i) /\ ~Caught(Alone(i).raises)

FirstRendering ==
    IF \E i \in 1..Len(mappings) : Renders(i)
    THEN CHOOSE i \in 1..Len(mappings) :
            Renders(i) /\ \A j \in 1..(i - 1) : ~Renders(j)
    ELSE 0

NoneTriedAfter(i) ==
    \A k \in 1..Len(transformed.first.tried) : transformed.first.tried[k] <= i

\* C15 as stated: the output comes from the first rule, in list order, whose
\* pattern matches the path, and no rule after that one is evaluated
C15_FirstMatchOnly ==
    (Transformed /\ FirstMatching # 0) =>
        /\ transformed.first.rule \in {0, FirstMatching}
        /\ NoneTriedAfter(FirstMatching)

\* C15 amended: a matching rule whose template raises KeyError or ValueError
\* is skipped and the scan goes on; the output comes from the first rule, in
\* list order, that matches and whose template does not raise such an
\* exception, it is what that rule alone gives, and no rule after that one is
\* evaluated; if there is no such rule every enabled rule is evaluated and
\* the path is returned unchanged
C15_FirstRenderingMatchWins ==
    Transformed =>
        /\ transformed.first.rule = FirstRendering
        /\ FirstRendering # 0 =>
              /\ SameOutput(transformed.first, Alone(FirstRendering))
              /\ NoneTriedAfter(FirstRendering)
              /\ \A i \in 1..FirstRendering :
                    (mappings[i].enabled /\ mappings[i].source_pattern.compiles) =>
                        \E k \in 1..Len(transformed.first.tried) :
                            transformed.first.tried[k] = i
        /\ FirstRendering = 0 =>
              transformed.first.path = source_path /\ transformed.first.raises = ""

C15_Witness ==
    /\ Transformed
    /\ mappings = <<PdfToUuid, PdfToFixedUuid>>
    /\ source_path = ReportPdf
    /\ transformed.first.rule = 2
    /\ transformed.first.tried = <<1, 2>>

\* C16 as stated: create_uuid_mapping's rules turn report.pdf into a path
\* under docs/user123/; and when the first matching rule's template has
\* named placeholders for groups the pattern names, the output is the
\* template with the captured values filled in
C16_ReportPdfGoesUnderUserDir ==
    Transformed =>
        /\ (/\ source_path = ReportPdf
            /\ Len(mappings) >= 1
            /\ mappings[1] = PdfToUuid) =>
               /\ transformed.first.raises = ""
               /\ Len(transformed.first.path) > 4
               /\ SubSeq(transformed.first.path, 1, 4) = <<"docs", "/", "user123", "/">>
        /\ (/\ FirstMatching # 0
            /\ HasBraces(mappings[FirstMatching].dest_pattern)
            /\ Alone(FirstMatching).raises = "") =>
               transformed.first.path =
                   Format(mappings[FirstMatching].dest_pattern,
                          Search(mappings[FirstMatching].source_pattern,
                                 source_path).groups)

\* C17 as stated: construction succeeds and transform_path returns a path,
\* without raising, for every rule list and path
C17_NeverRaises ==
    /\ transformed.stage # "none" =>
          \A k \in 1..Len(transformed.compiled_mappings) :
              LET i == transformed.compiled_mappings[k].mapping IN
              mappings[i].enabled /\ mappings[i].source_pattern.compiles
    /\ Transformed => transformed.first.raises = ""

\* C18: when no rule matches the path, transform_path returns it unchanged,
\* without raising, and transforming the result again gives the same; so
\* for the empty rule list
C18_IdentityWhenNoMatch ==
    (\A i \in 1..Len(mappings) : ~Matches(i)) =>
        /\ Transformed =>
              /\ transformed.first.raises = ""
              /\ transformed.first.path = source_path
              /\ transformed.first.rule = 0
        /\ transformed.stage = "twice" =>
              /\ transformed.second.raises = ""
              /\ transformed.second.path = transformed.first.path

C18_Witness ==
    /\ transformed.stage = "twice"
    /\ mappings = <<UuidToPdf, PdfToDocx>>
    /\ source_path = <<"report", ".", "docx">>
    /\ transformed.first.tried = <<1, 2>>
    /\ transformed.second.path = source_path

Searched == best_match.done

Best == best_match.match

IsOne(confidence) == confidence[1] = confidence[2]

\* the i-th candidate's file is there, readable and byte-identical to the
\* source file, which is readable
ByteIdentical(i) ==
    /\ file_path.disk \in Contents
    /\ CandidatePath(candidate_files[i]) # [local |-> "", path |-> <<>>]
    /\ candidate_files[i].disk = file_path.disk

\* the i-th candidate's content hash equals the source's
SameHash(i) ==
    /\ CalculateFileHash(file_path.disk) # ""
    /\ CandidatePath(candidate_files[i]) # [local |-> "", path |-> <<>>]
    /\ CalculateFileHash(candidate_files[i].disk) = CalculateFileHash(file_path.disk)

\* C19: with a byte-identical candidate in the pool, find_best_match returns
\* a content_hash match with confidence 1.0, whatever the other candidates
\* and the other passes give
C19_IdenticalContentWins ==
    (Searched /\ \E i \in 1..Len(candidate_files) : ByteIdentical(i)) =>
        /\ best_match.found
        /\ Best.match_type = "content_hash"
        /\ IsOne(Best.match_confidence)
        /\ \E i \in 1..Len(candidate_files) :
              Best.candidate = candidate_files[i] /\ SameHash(i)

C19_Witness ==
    /\ Searched
    /\ file_path = [path |-> HrReport, disk |-> "c1"]
    /\ candidate_files = <<Candidate(FinanceReport, "", "c2"),
                           Candidate(UuidFile, "/cache/uuid", "c1")>>
    /\ Best.match_type = "content_hash"
    /\ Best.candidate = candidate_files[2]

\* C20 as stated: a returned match with confidence 1.0 is a content_hash
\* match
C20_OneOnlyForContent ==
    (Searched /\ best_match.found /\ IsOne(Best.match_confidence)) =>
        Best.match_type = "content_hash"

\* C20 amended: a returned content_hash match has confidence 1.0 and the
\* hash of its file equals the source's. A match of another type is
\* returned with confidence 1.0 only when no candidate's content hash equals
\* the source's, and then all metadata keys the two paths share are equal
\* (metadata) or the normalised names have the same words (filename_pattern)
C20_OneWithoutContentOnlyIfNoHashMatch ==
    (Searched /\ best_match.found) =>
        /\ Best.match_type = "content_hash" =>
              /\ IsOne(Best.match_confidence)
              /\ \E i \in 1..Len(candidate_files) :
                    Best.candidate = candidate_files[i] /\ SameHash(i)
        /\ (Best.match_type # "content_hash" /\ IsOne(Best.match_confidence)) =>
              /\ \A i \in 1..Len(candidate_files) : ~SameHash(i)
              /\ Best.match_type = "metadata" =>
                    LET m1 == ExtractMetadataFromPath(file_path.path)
                        m2 == ExtractMetadataFromPath(Best.candidate.path)
                    IN  /\ (DOMAIN m1) \cap (DOMAIN m2) # {}
                        /\ \A k \in (DOMAIN m1) \cap (DOMAIN m2) : m1[k] = m2[k]
              /\ Best.match_type = "filename_pattern" =>
                    /\ NormalizedWords(file_path.path) # {}
                    /\ NormalizedWords(file_path.path) =
                           NormalizedWords(Best.candidate.path)

C20_Witness ==
    /\ Searched
    /\ file_path = [path |-> HrReport, disk |-> "c1"]
    /\ candidate_files = <<Candidate(FinanceReport, "", "c2")>>
    /\ best_match.found
    /\ Best.match_type = "filename_pattern"
    /\ IsOne(Best.match_confidence)

PassOrder == <<"content_hash", "metadata", "filename_pattern">>

\* the confidence pass t gives the i-th candidate
ConfidenceIn(t, i) ==
    CASE t = 1 -> One
      [] t = 2 -> CalculateMetadataSimilarity(ExtractMetadataFromPath(file_path.path),
                     ExtractMetadataFromPath(candidate_files[i].path))
      [] t = 3 -> CalculateStringSimilarity(NormalizedWords(file_path.path),
                     NormalizedWords(candidate_files[i].path))

\* pass t produces a match for the i-th candidate
Hit(t, i) ==
    CASE t = 1 -> SameHash(i) /\ candidate_files[i].disk \in Contents
      [] t = 2 -> 2 * ConfidenceIn(2, i)[1] > ConfidenceIn(2, i)[2]
      [] t = 3 -> 10 * ConfidenceIn(3, i)[1] > 7 * ConfidenceIn(3, i)[2]

Hits == {h \in (1..3) \X (1..Len(candidate_files)) : Hit(h[1], h[2])}

\* hit g is found before hit h
Earlier(g, h) == g[1] < h[1] \/ (g[1] = h[1] /\ g[2] < h[2])

Higher(g, h) == Greater(ConfidenceIn(g[1], g[2]), ConfidenceIn(h[1], h[2]))

\* C21: find_best_match returns None exactly when no pass has a match for
\* any candidate; otherwise it returns the match of a hit whose confidence
\* no hit exceeds and which comes before every other hit of that confidence
\* in the order content, metadata, filename and, within a pass, list order
C21_BestOfPool ==
    Searched =>
        /\ best_match.found <=> Hits # {}
        /\ best_match.found =>
              \E h \in Hits :
                  /\ Best = Match(candidate_files[h[2]], PassOrder[h[1]],
                                  ConfidenceIn(h[1], h[2]))
                  /\ \A g \in Hits : ~Higher(g, h)
                  /\ \A g \in Hits : Earlier(g, h) => Higher(h, g)

C21_Witness ==
    /\ Searched
    /\ file_path = [path |-> HrReport, disk |-> "unreadable"]
    /\ candidate_files = <<Candidate(FinanceReport, "", "c2"),
                           Candidate(HrReport, "/cache/hr", "c1x")>>
    /\ Hits = {<<2, 1>>, <<2, 2>>, <<3, 1>>, <<3, 2>>}
    /\ Best.match_type = "metadata"
    /\ Best.candidate = candidate_files[2]

\* the keys both dicts of the call have, and those on which they agree
SharedKeys == (DOMAIN metadata_pair[1]) \cap (DOMAIN metadata_pair[2])
EqualKeys == {k \in SharedKeys : metadata_pair[1][k] = metadata_pair[2][k]}

\* C22: the similarity of two metadata dicts is the number of shared keys
\* with equal values over the number of shared keys, 0 when they share no
\* key (either being empty included); it lies within [0, 1] and the
\* calculation never fails.
C22_SimilarityIsShareOfEqualKeys ==
    metadata_similarity.done =>
        LET value == metadata_similarity.value IN
        /\ metadata_similarity.raises = ""
        /\ value[2] > 0
        /\ SharedKeys = {} => value[1] = 0
        /\ SharedKeys # {} =>
              value[1] * Cardinality(SharedKeys) = Cardinality(EqualKeys) * value[2]
        /\ 0 <= value[1] /\ value[1] <= value[2]

C22_Witness ==
    /\ metadata_similarity.done
    /\ Cardinality(SharedKeys) = 3
    /\ Cardinality(EqualKeys) = 2
    /\ metadata_similarity.value = <<2, 3>>

\* the listing of process p ended without a usable answer of the tool
ListingFailed(p) ==
    /\ lastResult[p].op = "list_source_files"
    /\ Len(log[p]) = 1
    /\ \/ log[p][1].outcome \in {"exit1", "fault"}
       \/ log[p][1].outcome = "exit0" /\ log[p][1].stdout = NoJson

\* what the caller gets for a successful listing of an empty store
EmptyStoreListing ==
    [NoResult EXCEPT !.op = "list_source_files", !.outcome = "returned", !.results = <<>>]

\* C23: a failed file listing is never silently swallowed: when the listing
\* exits non-zero or prints output that is no JSON, what the caller of
\* list_source_files receives differs from what it receives for a
\* successful listing of an empty store.
C23_FailedListingIsDistinguishable ==
    \A p \in Procs : ListingFailed(p) => lastResult[p] # EmptyStoreListing

\* the callback answered with the success page / with an error
Exchanged == pc[1] = "callback_done" /\ exchange.answer = "success"
ExchangeFailed == pc[1] = "callback_done" /\ exchange.answer = "error"

\* the full response of the exchange with issued_at set to the exchange time
Persisted == CompleteFile(DictSet(exchange.response.body, "issued_at", exchange.at))

\* process 2 called get_access_token on the file the exchange left, while
\* now - issued_at < expires_in - 300
ReadWhileFresh ==
    /\ Exchanged
    /\ pc[2] # "new"
    /\ loaded[2] = Persisted
    /\ "expires_in" \in DOMAIN exchange.response.body
    /\ tokTime[2] - exchange.at < exchange.response.body["expires_in"] - RefreshMargin

\* C24: a successful authorization-code exchange persists the full
\* token-endpoint response with issued_at stamped to the exchange time, so
\* that a get_access_token call made afterwards while
\* now - issued_at < expires_in - 300 returns exactly the exchanged
\* access_token with no refresh call; a failed exchange leaves the token
\* file unchanged.
C24_ExchangePersistsFreshToken ==
    /\ (Exchanged /\ tokWrites[2] = 0) => tokenFile = Persisted
    /\ ReadWhileFresh =>
          /\ tokRes[2] = exchange.response.body["access_token"]
          /\ tokErr[2] = ""
          /\ refreshCalls[2] = 0
    /\ (ExchangeFailed /\ tokWrites[2] = 0) =>
          /\ tokenFile = exchange.before
          /\ tokWrites[1] = 0

C24_Witness ==
    /\ ReadWhileFresh
    /\ exchange.before = CompleteFile([access_token |-> "a0"])
    /\ tokTime[2] = exchange.at + 1
    /\ tokRes[2] = "a2"

\* a failed exchange that had a token file to spoil
C24_FailedWitness ==
    /\ ExchangeFailed
    /\ exchange.posted
    /\ exchange.response.kind = "no_json"
    /\ tokenFile.state = "complete"

\* C25: over any sequence of run_sync, run_bidirectional_sync and
\* list_source_files calls on one SyncEngine, every tool invocation is made
\* while the configuration file passed to it via --config exists.
C25_ConfigExistsAtEveryInvocation ==
    \A p \in Procs : inflight[p] > 0 => cfgFile.exists

\* positions of a process inside RcloneClient.__init__, or after it failed
Constructing ==
    {"new", "refresh_wait", "token_open", "token_dump", "write_config", "ctor_failed"}

\* C26: the access token is resolved exactly once per RcloneClient, at
\* construction: once the client is built, no step of a sync, check, list or
\* bidirectional operation calls get_access_token, reads the token file,
\* issues a refresh call or rewrites the generated configuration file (the
\* file can only be removed).
C26_TokenResolvedOnlyAtConstruction ==
    [][pc[1] \notin Constructing =>
          /\ tokVars' = tokVars
          /\ tokenFile' = tokenFile
          /\ cfgFile' \in {cfgFile, NoConfigFile}
          /\ tokRes[1] # "" /\ tokErr[1] = ""]_vars

C26_Witness ==
    /\ IsOAuth(1)
    /\ refreshCalls[1] = 1
    /\ ncalls[1] = 2
    /\ lastResult[1].op = "list_source_files"
    /\ lastResult[1].outcome = "returned"
    /\ tokTime[1] < now

\* C27: if get_access_token fails during construction, construction fails
\* with an error, the configuration file is neither created nor modified,
\* and no tool invocation is made.
C27_FailedTokenFailsConstruction ==
    tokErr[1] # "" =>
        /\ pc[1] = "ctor_failed"
        /\ cfgFile.writer # 1
        /\ cfgFile \in {NoConfigFile, LeftoverConfig}
        /\ NothingInvoked(1)
        /\ ncalls[1] = 0

C27_Witness ==
    /\ tokErr[1] = "http_error"
    /\ pc[1] = "ctor_failed"
    /\ cfgFile = LeftoverConfig
    /\ refreshCalls[1] = 1

\* run_sync of process 1 was called with a direction it has a branch for
\* and has ended
RunSyncEnded ==
    /\ call[1].op = "run_sync"
    /\ RunSyncAccepts(call[1].direction)
    /\ lastResult[1].outcome # "none"

\* the invocations of the sync subcommand made by the current call
SyncInvocations == {i \in 1..Len(log[1]) : log[1][i].args.op = "sync"}

\* C28: for a direction run_sync accepts, run_sync never raises: a fault of
\* the preview check or of the sync is captured as success=false with an
\* error field, and success is true exactly when the single sync invocation
\* exited 0.
C28_RunSyncNeverRaises ==
    RunSyncEnded =>
        /\ lastResult[1].outcome = "returned"
        /\ Faulted(1) => ~lastResult[1].success /\ lastResult[1].has_error
        /\ Cardinality(SyncInvocations) <= 1
        /\ lastResult[1].success <=>
              \E i \in SyncInvocations : log[1][i].outcome = "exit0"

C28_Witness ==
    /\ RunSyncEnded
    /\ ~call[1].dry_run
    /\ Len(log[1]) = 2
    /\ log[1][1].outcome = "exit1"
    /\ log[1][2].outcome = "fault"
    /\ ~lastResult[1].success

\* process 1 is inside run_sync, called with a direction it accepts, or has
\* returned from it
InRunSync == call[1].op = "run_sync" /\ RunSyncAccepts(call[1].direction)

\* C29: a non-dry run_sync invokes check once, to completion, before the
\* sync, and goes on to the sync whatever the exit code of the check; a
\* dry-run run_sync makes no check invocation and exactly one sync
\* invocation, with --dry-run.
C29_CheckThenSync ==
    InRunSync =>
        /\ inflight[1] <= 1
        /\ ~call[1].dry_run =>
              /\ Len(log[1]) >= 1 /\ log[1][1].args.op = "check"
              /\ \A i \in 2..Len(log[1]) :
                    log[1][i].args.op = "sync" /\ log[1][1].outcome # ""
              /\ (lastResult[1].outcome = "returned"
                      /\ log[1][1].outcome \in {"exit0", "exit1"}) =>
                    /\ Len(log[1]) = 2
                    /\ "--dry-run" \notin log[1][2].args.flags
        /\ call[1].dry_run =>
              /\ Len(log[1]) = 1
              /\ log[1][1].args.op = "sync"
              /\ "--dry-run" \in log[1][1].args.flags

C29_Witness ==
    /\ InRunSync
    /\ ~call[1].dry_run
    /\ lastResult[1].outcome = "returned"
    /\ log[1][1].outcome = "exit1"
    /\ log[1][2].args.op = "sync"
    /\ log[1][2].outcome = "exit0"
    /\ lastResult[1].success

C29_DryRunWitness ==
    /\ InRunSync
    /\ call[1].dry_run
    /\ lastResult[1].outcome = "returned"
    /\ call[1].direction = "s3_to_dropbox"
    /\ lastResult[1].success

\* a dry-run bidirectional sync of process 1 has ended
DryBidiEnded ==
    /\ call[1].op = "run_bidirectional_sync"
    /\ call[1].dry_run
    /\ lastResult[1].outcome # "none"

ChecksBothWays ==
    /\ Len(log[1]) = 2
    /\ log[1][1].args = CheckArgs(Dropbox, Bucket)
    /\ log[1][2].args = CheckArgs(Bucket, Dropbox)

NonZero(i) == log[1][i].outcome = "exit1"

\* C30 as stated: a dry-run bidirectional sync makes exactly two tool
\* invocations, both check (dropbox-to-s3, then s3-to-dropbox), never sync,
\* returns success=true whatever the checks' exit codes, and reports
\* has_changes exactly when at least one check exited non-zero.
C30_TwoChecksAlwaysSuccess ==
    DryBidiEnded =>
        /\ ChecksBothWays
        /\ lastResult[1].outcome = "returned"
        /\ lastResult[1].success
        /\ lastResult[1].has_changes <=> (NonZero(1) \/ NonZero(2))

\* C30 amended: a dry-run bidirectional sync never invokes sync; when both
\* checks end with an exit code it has made exactly the two check
\* invocations, returns success=true and reports has_changes exactly when at
\* least one of them exited non-zero; when a check invocation raises, the
\* call returns success=false with an error and no has_changes, and a check
\* that raised first is the only invocation.
C30_TwoChecksUnlessFault ==
    DryBidiEnded =>
        /\ lastResult[1].outcome = "returned"
        /\ \A i \in 1..Len(log[1]) : log[1][i].args.op = "check"
        /\ ~Faulted(1) =>
              /\ ChecksBothWays
              /\ lastResult[1].success
              /\ lastResult[1].has_changes <=> (NonZero(1) \/ NonZero(2))
        /\ Faulted(1) =>
              /\ ~lastResult[1].success
              /\ lastResult[1].has_error
              /\ ~lastResult[1].has_changes
              /\ log[1][1].args = CheckArgs(Dropbox, Bucket)
              /\ log[1][1].outcome = "fault" => Len(log[1]) = 1

C30_Witness ==
    /\ DryBidiEnded
    /\ ChecksBothWays
    /\ log[1][1].outcome = "exit0"
    /\ NonZero(2)
    /\ lastResult[1].success
    /\ lastResult[1].has_changes

====
